---- MODULE Spec2Model ----
(***************************************************************************)
(* Zlate browser extension: the freemium license subsystem.                *)
(*                                                                         *)
(*   LicenseManager  (src/src/utils/license.js, lines 44-320)              *)
(*   FeatureGate     (src/src/utils/license.js, lines 1114-1218)           *)
(*   HistoryManager  (src/src/utils/license.js, lines 1257-1805)           *)
(*   content script  (src/src/popup/popup.js, lines 690-1008)              *)
(*   popup           (src/src/popup/popup.js, lines 1-451)                 *)
(*                                                                         *)
(* chrome.storage.local is the shared persistent store; its keys           *)
(* licenseKey, licenseStatus, translationHistory and pendingSyncItems are  *)
(* the variables of the same name.  Time is counted in hours since an      *)
(* arbitrary origin: an ISO timestamp string is the number of hours it     *)
(* denotes (toISOString and new Date(string) are exact inverses on valid   *)
(* dates, and every duration the code uses is a whole number of hours).    *)
(***************************************************************************)
EXTENDS Integers, Sequences, FiniteSets, TLC

VARIABLES
    now,                \* the wall clock: Date.now() / new Date()
    licenseKey,         \* chrome.storage.local "licenseKey"
    licenseStatus,      \* chrome.storage.local "licenseStatus"
    cachedStatus,       \* LicenseManager._cachedStatus (in memory)
    last,               \* what the most recent operation did and returned
    translationHistory, \* chrome.storage.local "translationHistory"
    pendingSyncItems,   \* chrome.storage.local "pendingSyncItems"
    nextId,             \* the number of history items stored so far, plus one
    lastValidated,      \* history variable, kept under SpecApp: per license
                        \* key, when the license service last answered "valid"
                        \* for it (NoTime: never)
    gateStatus,         \* the background worker's featureGate._cachedStatus
    served,             \* the worker's latest translate request and its answer
    syncTasks,          \* syncToCloud calls the worker started and did not
                        \* wait for, which have not run yet
    recorded,           \* history variable, kept under SpecRecord: the items
                        \* addTranslation stored, oldest first, each with the
                        \* trust level it was stored under
    adding,             \* per open addTranslation call: how far it got and
                        \* what it holds between its storage callbacks
    syncing,            \* the open syncToCloud call, its request under way
    validating          \* the open getLicenseStatus call, its validation
                        \* request under way

licenseVars == <<licenseKey, licenseStatus, cachedStatus>>
historyVars == <<translationHistory, pendingSyncItems, nextId, recorded>>
flightVars == <<adding, syncing, validating>>
workerVars == <<gateStatus, served, syncTasks, flightVars>>
vars == <<now, licenseKey, licenseStatus, cachedStatus, last,
          translationHistory, pendingSyncItems, nextId, lastValidated, recorded,
          gateStatus, served, syncTasks, adding, syncing, validating>>

-----------------------------------------------------------------------------
(* Program constants (hours) *)

DAY == 24
CACHE_DURATION == 24
GRACE_PERIOD == 7 * 24
\* history limits (items)
FREE_HISTORY_LIMIT == 5
CONTENT_HISTORY_LIMIT == 50
\* MAX_HISTORY_ITEMS of constants.js, the length the README promises
MAX_HISTORY_ITEMS == 50

-----------------------------------------------------------------------------
(* Bounds of the model *)

\* the clock starts StartDay days after the origin, so that timestamps in the
\* past of the first state exist
StartDay == 8
\* the clock advances at most MaxTicks days when the license manager is driven
\* through its whole interface, and MaxAppDays days when the extension drives it
MaxTicks == 1
MaxAppDays == 8
\* at most MaxItems history items are stored
MaxItems == 6
\* at most MaxSyncItems history items are stored where syncs and fetches run
MaxSyncItems == 2

\* translations the background worker records in a behaviour
MaxRequests == 1
\* the addTranslation calls that can be open at the same time
MaxSlots == 2
\* the days the clock stops at when the extension drives the manager: the days
\* up to the end of the cache, then the days from the last day of the grace
\* period on (on the days between, nothing the manager decides changes)
AppDays ==
    {d \in 0..MaxAppDays : d * DAY <= CACHE_DURATION \/ (d + 1) * DAY >= GRACE_PERIOD}

-----------------------------------------------------------------------------
(* Values *)

\* JavaScript null and undefined (an absent storage key)
NULL == "<null>"
UNDEFINED == "<undefined>"
\* a null / missing timestamp
NoTime == 0 - 1
\* an absent or null status object
NoStatus == [absent |-> TRUE]
\* validationResult.license when the response carries none
NoLicense == [absent |-> TRUE]

\* no request was made, so there is no answer
NoAnswer == [kind |-> "none"]
\* no translation was passed to the operation
NoInput == [absent |-> TRUE]

\* license keys: two well-formed keys, the empty string, a whitespace-only one
KEY1 == "ABCDEFGHIJKLMNOP"
KEY2 == "QRSTUVWXYZ012345"
EMPTY == ""
BLANK == "   "
WellFormedKeys == {KEY1, KEY2}

\* a value that is not a string and is truthy (a number, an object)
NOT_A_STRING == "<42>"

\* typeof k === 'string'
IsString(k) == k \notin {UNDEFINED, NULL, NOT_A_STRING}

\* String.prototype.trim on the keys of the model
trim(s) == IF s = BLANK THEN EMPTY ELSE s

\* JavaScript truthiness of a stored key: undefined, null and "" are falsy, any
\* other string (a whitespace-only one too) is truthy
Truthy(k) == k \notin {UNDEFINED, NULL, EMPTY}

\* the license details the license service can answer with
Licenses ==
    { [email |-> "a@example.com", expiresAt |-> (StartDay + 3) * DAY] }

\* the answers a request to POST /api/license/validate can get:
\*   ok          a 2xx response whose JSON body is {valid, license?, error?}
\*   http_error  a non-2xx response
\*   bad_body    a 2xx response whose body is not JSON (response.json() rejects)
\*   network     fetch itself rejects (transport failure)
ValidateAnswers ==
    { [kind |-> "ok", valid |-> TRUE, license |-> l] : l \in Licenses \cup {NoLicense} }
    \cup { [kind |-> "ok", valid |-> FALSE, license |-> NoLicense] }
    \cup { [kind |-> k, valid |-> FALSE, license |-> NoLicense] :
             k \in {"http_error", "bad_body", "network"} }

-----------------------------------------------------------------------------
(* LicenseManager *)

\* LicenseManager._getFreemiumStatus at time t
_getFreemiumStatus(t) ==
    [ isPremium   |-> FALSE,
      licenseKey  |-> NULL,
      email       |-> NULL,
      expiresAt   |-> NoTime,
      validatedAt |-> t,
      cachedUntil |-> t ]

\* a cache that is still valid at the instant it expires
CacheValidAtExpiry(status, t) ==
    IF status = NoStatus \/ status.cachedUntil = NoTime
    THEN FALSE
    ELSE status.cachedUntil >= t

\* a grace period that still holds at the instant it ends
GraceHoldsAtEnd(status, t) ==
    IF status = NoStatus \/ status.validatedAt = NoTime
    THEN FALSE
    ELSE t <= status.validatedAt + GRACE_PERIOD

\* a grace period that never ends
GraceNeverEnds(status, t) == status # NoStatus /\ status.validatedAt # NoTime

\* LicenseManager._isCacheValid at time t
_isCacheValid(status, t) ==
    IF status = NoStatus \/ status.cachedUntil = NoTime
    THEN FALSE
    ELSE status.cachedUntil > t

\* LicenseManager._isWithinGracePeriod at time t
_isWithinGracePeriod(status, t) ==
    IF status = NoStatus \/ status.validatedAt = NoTime
    THEN FALSE
    ELSE LET gracePeriodEnd == status.validatedAt + GRACE_PERIOD
         IN  t < gracePeriodEnd

\* a validation that sends a whitespace-only key to the license service
ValidateWithoutTrim(key, answer) ==
    IF ~Truthy(key) \/ ~IsString(key)
    THEN [ valid |-> FALSE, license |-> NoLicense,
           error |-> "License key is required", requested |-> FALSE,
           threw |-> FALSE ]
    ELSE [ valid |-> FALSE, license |-> NoLicense,
           error |-> "Invalid license key", requested |-> TRUE, threw |-> FALSE ]

\* a validation without the catch of lines 87-92: a failed fetch or an
\* unparsable body leaves it as an exception
ValidateLetsErrorsThrough(key, answer) ==
    IF ~Truthy(key) \/ ~IsString(key) \/ trim(key) = EMPTY
    THEN [ valid |-> FALSE, license |-> NoLicense,
           error |-> "License key is required", requested |-> FALSE,
           threw |-> FALSE ]
    ELSE [ valid |-> answer.kind = "ok" /\ answer.valid, license |-> answer.license,
           error |-> "Failed to fetch", requested |-> TRUE,
           threw |-> answer.kind \in {"bad_body", "network"} ]

\* LicenseManager.validateLicense(key) when the request, if one is made, gets
\* `answer`.  requested tells whether fetch was called; threw whether the
\* call ends with an exception: the catch of lines 87-92 turns every failure
\* into valid=false.
validateLicense(key, answer) ==
    IF ~Truthy(key) \/ ~IsString(key) \/ trim(key) = EMPTY
    THEN [ valid |-> FALSE, license |-> NoLicense,
           error |-> "License key is required", requested |-> FALSE,
           threw |-> FALSE ]
    ELSE CASE answer.kind = "http_error" ->
                [ valid |-> FALSE, license |-> NoLicense,
                  error |-> "Validation failed with status", requested |-> TRUE,
                  threw |-> FALSE ]
           [] answer.kind = "ok" ->
                [ valid |-> answer.valid, license |-> answer.license,
                  error |-> IF answer.valid THEN NULL ELSE "Invalid license key",
                  requested |-> TRUE, threw |-> FALSE ]
           [] answer.kind \in {"bad_body", "network"} ->
                [ valid |-> FALSE, license |-> NoLicense,
                  error |-> "Network error during validation", requested |-> TRUE,
                  threw |-> FALSE ]

\* LicenseManager._getStoredLicenseData: `value || null` on both keys
_getStoredLicenseData(key, status) ==
    [ licenseKey    |-> IF Truthy(key) THEN key ELSE NULL,
      licenseStatus |-> status ]

\* a store that leaves the stored key alone when the status carries none
StoreKeepsKeyOnNull(m, status, writeOk) ==
    IF writeOk
    THEN [ ok |-> TRUE,
           licenseKey |-> IF status.licenseKey = NULL THEN m.licenseKey
                          ELSE status.licenseKey,
           licenseStatus |-> status, cachedStatus |-> status ]
    ELSE [ ok |-> FALSE, licenseKey |-> m.licenseKey,
           licenseStatus |-> m.licenseStatus, cachedStatus |-> m.cachedStatus ]

\* a store that writes the status record and leaves the stored key alone
StoreStatusOnly(m, status, writeOk) ==
    IF writeOk
    THEN [ ok |-> TRUE, licenseKey |-> m.licenseKey,
           licenseStatus |-> status, cachedStatus |-> status ]
    ELSE [ ok |-> FALSE, licenseKey |-> m.licenseKey,
           licenseStatus |-> m.licenseStatus, cachedStatus |-> m.cachedStatus ]

\* LicenseManager.storeLicenseStatus(status) on the memory m = [licenseKey,
\* licenseStatus, cachedStatus]: one storage.set of both keys; when the set
\* reports chrome.runtime.lastError (writeOk = FALSE) the promise rejects and
\* nothing changes.
storeLicenseStatus(m, status, writeOk) ==
    IF writeOk
    THEN [ ok |-> TRUE, licenseKey |-> status.licenseKey,
           licenseStatus |-> status, cachedStatus |-> status ]
    ELSE [ ok |-> FALSE, licenseKey |-> m.licenseKey,
           licenseStatus |-> m.licenseStatus, cachedStatus |-> m.cachedStatus ]

\* the premium record getLicenseStatus and the popup build from a valid answer
PremiumStatus(key, license, t) ==
    [ isPremium   |-> TRUE,
      licenseKey  |-> key,
      email       |-> license.email,
      expiresAt   |-> license.expiresAt,
      validatedAt |-> t,
      cachedUntil |-> t + CACHE_DURATION ]

\* a catch that renews the cache window of the stored status it answers with
GraceRenewsCache(m, storedStatus, t, res) ==
    IF storedStatus # NoStatus /\ storedStatus.isPremium
         /\ _isWithinGracePeriod(storedStatus, t)
    THEN [res EXCEPT !.licenseStatus = [storedStatus EXCEPT
                                          !.cachedUntil = t + CACHE_DURATION],
                     !.cachedStatus = storedStatus, !.ret = storedStatus,
                     !.branch = "grace"]
    ELSE [res EXCEPT !.cachedStatus = _getFreemiumStatus(t),
                     !.ret = _getFreemiumStatus(t), !.branch = "fallback"]

\* the catch block of getLicenseStatus (lines 142-154)
GraceBranch(m, storedStatus, t, res) ==
    IF storedStatus # NoStatus /\ storedStatus.isPremium
         /\ _isWithinGracePeriod(storedStatus, t)
    THEN [res EXCEPT !.cachedStatus = storedStatus, !.ret = storedStatus,
                     !.branch = "grace"]
    ELSE [res EXCEPT !.cachedStatus = _getFreemiumStatus(t),
                     !.ret = _getFreemiumStatus(t), !.branch = "fallback"]

\* LicenseManager.getLicenseStatus at time t on the memory m.  stubbed: the
\* instance's validateLicense was replaced by one that throws (license.test.js
\* 640-642); answer: what the validation request gets; writeOk: whether the
\* storage.set of storeLicenseStatus succeeds.  The result is the memory after
\* the call, the returned status and what the call did.
getLicenseStatus(m, t, stubbed, answer, writeOk) ==
    LET storedData == _getStoredLicenseData(m.licenseKey, m.licenseStatus)
        storedStatus == storedData.licenseStatus
        res0 == [ licenseKey |-> m.licenseKey, licenseStatus |-> m.licenseStatus,
                  cachedStatus |-> m.cachedStatus, ret |-> NoStatus,
                  branch |-> "none", validatorCalled |-> FALSE,
                  requested |-> FALSE, answer |-> NoAnswer, result |-> "none",
                  wrote |-> FALSE ]
    IN
    IF ~Truthy(storedData.licenseKey)
    THEN [res0 EXCEPT !.ret = _getFreemiumStatus(t), !.branch = "nokey"]
    ELSE IF storedStatus # NoStatus /\ _isCacheValid(storedStatus, t)
    THEN [res0 EXCEPT !.cachedStatus = storedStatus, !.ret = storedStatus,
                      !.branch = "cache"]
    ELSE IF stubbed
    THEN GraceBranch(m, storedStatus, t,
                     [res0 EXCEPT !.validatorCalled = TRUE, !.result = "raised"])
    ELSE
      LET validationResult == validateLicense(storedData.licenseKey, answer)
          res1 == [res0 EXCEPT !.validatorCalled = TRUE,
                               !.requested = validationResult.requested,
                               !.answer = IF validationResult.requested
                                          THEN answer ELSE NoAnswer]
      IN
      IF validationResult.valid /\ validationResult.license # NoLicense
      THEN LET newStatus == PremiumStatus(storedData.licenseKey,
                                          validationResult.license, t)
               w == storeLicenseStatus(m, newStatus, writeOk)
               res2 == [res1 EXCEPT !.result = "valid", !.wrote = TRUE]
           IN  IF w.ok
               THEN [res2 EXCEPT !.licenseKey = w.licenseKey,
                                 !.licenseStatus = w.licenseStatus,
                                 !.cachedStatus = newStatus,
                                 !.ret = newStatus, !.branch = "valid"]
               ELSE GraceBranch(m, storedStatus, t, res2)
      ELSE LET freemiumStatus == _getFreemiumStatus(t)
               w == storeLicenseStatus(m, freemiumStatus, writeOk)
               res2 == [res1 EXCEPT !.result = "invalid", !.wrote = TRUE]
           IN  IF w.ok
               THEN [res2 EXCEPT !.licenseKey = w.licenseKey,
                                 !.licenseStatus = w.licenseStatus,
                                 !.cachedStatus = freemiumStatus,
                                 !.ret = freemiumStatus, !.branch = "invalid"]
               ELSE GraceBranch(m, storedStatus, t, res2)

\* a clear that removes the stored status and leaves the stored key
ClearKeepsKey(m, t, writeOk) ==
    IF writeOk
    THEN [ ok |-> TRUE, licenseKey |-> m.licenseKey, licenseStatus |-> NoStatus,
           cachedStatus |-> _getFreemiumStatus(t) ]
    ELSE [ ok |-> FALSE, licenseKey |-> m.licenseKey,
           licenseStatus |-> m.licenseStatus, cachedStatus |-> m.cachedStatus ]

\* LicenseManager.clearLicense on the memory m: one storage.remove of both
\* keys; on lastError the promise rejects and nothing changes.
clearLicense(m, t, writeOk) ==
    IF writeOk
    THEN [ ok |-> TRUE, licenseKey |-> UNDEFINED, licenseStatus |-> NoStatus,
           cachedStatus |-> _getFreemiumStatus(t) ]
    ELSE [ ok |-> FALSE, licenseKey |-> m.licenseKey,
           licenseStatus |-> m.licenseStatus, cachedStatus |-> m.cachedStatus ]

\* HistoryManager.setPremiumStatus(isPremium, licenseKey) at time t: the status
\* record it builds and writes, with the key, straight to storage
TEST_KEY == "test-key"
setPremiumStatus(isPremium, keyArg, t) ==
    LET key == IF Truthy(keyArg) THEN keyArg
               ELSE IF isPremium THEN TEST_KEY ELSE NULL
    IN  [ isPremium   |-> isPremium,
          licenseKey  |-> key,
          email       |-> IF isPremium THEN "test@example.com" ELSE NULL,
          expiresAt   |-> IF isPremium THEN t + 30 * DAY ELSE NoTime,
          validatedAt |-> t,
          cachedUntil |-> t + 24 ]

\* Math.ceil(a / b) for b > 0
Ceil(a, b) == 0 - ((0 - a) \div b)

\* a warning that is also shown on the day the license has expired
WarnsWhenExpired(status, currentDate) ==
    IF status = NoStatus \/ ~status.isPremium
       \/ status.expiresAt = NoTime
    THEN [shouldShow |-> FALSE, known |-> FALSE, daysUntilExpiry |-> 0]
    ELSE LET daysUntilExpiry == Ceil(status.expiresAt - currentDate, DAY)
         IN  [ shouldShow |-> daysUntilExpiry <= 7 /\ daysUntilExpiry >= 0,
               known |-> TRUE, daysUntilExpiry |-> daysUntilExpiry ]

\* checkExpirationWarning(licenseStatus, currentDate); known = FALSE stands
\* for daysUntilExpiry: null
checkExpirationWarning(status, currentDate) ==
    IF status = NoStatus \/ ~status.isPremium
       \/ status.expiresAt = NoTime
    THEN [shouldShow |-> FALSE, known |-> FALSE, daysUntilExpiry |-> 0]
    ELSE LET daysUntilExpiry == Ceil(status.expiresAt - currentDate, DAY)
         IN  [ shouldShow |-> daysUntilExpiry <= 7 /\ daysUntilExpiry > 0,
               known |-> TRUE, daysUntilExpiry |-> daysUntilExpiry ]

-----------------------------------------------------------------------------
(* HistoryManager and the content script's history *)

\* what a caller passes to addTranslation; tone may be left out
TranslationInputs ==
    { [ original |-> "hello", translation |-> "halo", sourceLang |-> "en",
        targetLang |-> "id", engine |-> "gemini", tone |-> UNDEFINED ],
      [ original |-> "thanks", translation |-> "merci", sourceLang |-> "auto",
        targetLang |-> "fr", engine |-> "deepseek", tone |-> "formal" ] }

OneInput == { CHOOSE x \in TranslationInputs : x.tone = UNDEFINED }

\* `status?.isPremium === true` on the stored license status
IsPremiumStored(status) == status # NoStatus /\ status.isPremium = TRUE

\* an item that keeps the tone as it was passed, also when it was left out
NewHistoryItemToneAsGiven(input, id, t) ==
    [ id         |-> id,
      original   |-> input.original,
      translation |-> input.translation,
      sourceLang |-> input.sourceLang,
      targetLang |-> input.targetLang,
      engine     |-> input.engine,
      tone       |-> input.tone,
      timestamp  |-> t,
      synced     |-> FALSE ]

\* the item addTranslation builds (lines 1386-1396); id stands for the value of
\* _generateId(), which is taken to be fresh
NewHistoryItem(input, id, t) ==
    [ id         |-> id,
      original   |-> input.original,
      translation |-> input.translation,
      sourceLang |-> input.sourceLang,
      targetLang |-> input.targetLang,
      engine     |-> input.engine,
      tone       |-> IF input.tone \in {UNDEFINED, NULL, EMPTY}
                     THEN "neutral" ELSE input.tone,
      timestamp  |-> t,
      synced     |-> FALSE ]

\* a history that drops the newest item, not the oldest, past the limit
AddToHistoryKeepOldest(item, history, isPremium) ==
    LET updatedHistory == <<item>> \o history
    IN  IF ~isPremium /\ Len(updatedHistory) > FREE_HISTORY_LIMIT
        THEN SubSeq(updatedHistory, 2, FREE_HISTORY_LIMIT + 1)
        ELSE updatedHistory

\* a history limited to FREE_HISTORY_LIMIT items whatever the trust level
AddToHistoryAlwaysLimited(item, history, isPremium) ==
    LET updatedHistory == <<item>> \o history
    IN  IF Len(updatedHistory) > FREE_HISTORY_LIMIT
        THEN SubSeq(updatedHistory, 1, FREE_HISTORY_LIMIT)
        ELSE updatedHistory

\* HistoryManager._addToHistory
_addToHistory(item, history, isPremium) ==
    LET updatedHistory == <<item>> \o history
        limit == FREE_HISTORY_LIMIT
    IN  IF ~isPremium /\ Len(updatedHistory) > limit
        THEN SubSeq(updatedHistory, 1, limit)
        ELSE updatedHistory

\* a queue that reports the item as added and leaves it out
QueueDropsItem(pending, item, queueOk) ==
    [ok |-> TRUE, pendingSyncItems |-> pending]

\* HistoryManager._addToPendingSyncQueue(item) on the stored queue; queueOk:
\* whether the storage.set of _storePendingSyncItems succeeds
_addToPendingSyncQueue(pending, item, queueOk) ==
    LET exists == \E i \in 1..Len(pending) : pending[i].id = item.id
    IN  IF exists
        THEN [ok |-> TRUE, pendingSyncItems |-> pending]
        ELSE IF queueOk
        THEN [ok |-> TRUE, pendingSyncItems |-> Append(pending, item)]
        ELSE [ok |-> FALSE, pendingSyncItems |-> pending]

\* HistoryManager.addTranslation(input) in the extension (lines 1414-1440) on
\* h = [translationHistory, pendingSyncItems, licenseStatus].  writeOk: whether
\* the storage.set of the history succeeds; queueOk: whether that of the queue
\* does.  outcome is "resolved" (the item is returned), "rejected" (the history
\* write failed) or "pending": the queue write failed inside the callback of
\* the history write, whose rejection nobody handles, so the promise
\* addTranslation returned never settles.
addTranslation(h, input, id, t, writeOk, queueOk) ==
    LET historyItem == NewHistoryItem(input, id, t)
        history == h.translationHistory
        isPremium == IsPremiumStored(h.licenseStatus)
        updatedHistory == _addToHistory(historyItem, history, isPremium)
        q == _addToPendingSyncQueue(h.pendingSyncItems, historyItem, queueOk)
    IN  IF ~writeOk
        THEN [ outcome |-> "rejected", item |-> historyItem, premium |-> isPremium,
               translationHistory |-> h.translationHistory,
               pendingSyncItems |-> h.pendingSyncItems ]
        ELSE IF ~isPremium
        THEN [ outcome |-> "resolved", item |-> historyItem, premium |-> isPremium,
               translationHistory |-> updatedHistory,
               pendingSyncItems |-> h.pendingSyncItems ]
        ELSE [ outcome |-> IF q.ok THEN "resolved" ELSE "pending",
               item |-> historyItem, premium |-> isPremium,
               translationHistory |-> updatedHistory,
               pendingSyncItems |-> q.pendingSyncItems ]

\* the content script's saveToHistory (popup.js 841-857): the new item goes to
\* the front, and one item is popped from the end past 50; id stands for
\* Date.now()
saveToHistory(history, input, id, t) ==
    LET item == [ id |-> id, original |-> input.original,
                  translation |-> input.translation, engine |-> input.engine,
                  sourceLang |-> input.sourceLang, targetLang |-> input.targetLang,
                  timestamp |-> t ]
        unshifted == <<item>> \o history
    IN  IF Len(unshifted) > CONTENT_HISTORY_LIMIT
        THEN SubSeq(unshifted, 1, Len(unshifted) - 1)
        ELSE unshifted

\* HistoryManager._isPremium(): the stored status, whatever its cache says
_isPremium(status) == IsPremiumStored(status)

\* HistoryManager._getLicenseKey(): `result[LICENSE_KEY] || null`
_getLicenseKey(key) == IF Truthy(key) THEN key ELSE NULL

\* what the history server can answer to a sync request for `items`: 2xx with
\* success true, 2xx with success false, a non-2xx status, a body that does
\* not parse, or no answer at all (fetch rejects)
SyncAnswers(items) ==
    { [kind |-> "ok", success |-> TRUE, syncedCount |-> Len(items)],
      [kind |-> "ok", success |-> FALSE, syncedCount |-> 0],
      [kind |-> "http_error", success |-> FALSE, syncedCount |-> 0],
      [kind |-> "bad_body", success |-> FALSE, syncedCount |-> 0],
      [kind |-> "network", success |-> FALSE, syncedCount |-> 0] }

\* a marking that marks nothing
MarkNothing(history, itemIds) == history

\* the map of HistoryManager._markItemsAsSynced(itemIds) over the stored
\* history: `{ ...item, synced: true }` for the items whose id is in itemIds
\* (an item of the content script gets the field, having none)
MarkItems(history, itemIds) ==
    [i \in 1..Len(history) |->
        IF history[i].id \in itemIds
        THEN [f \in DOMAIN history[i] \cup {"synced"} |->
                 IF f = "synced" THEN TRUE ELSE history[i][f]]
        ELSE history[i]]

\* a sync that sends its request for an empty queue as well
SyncSendsEmptyQueue(status, key, pending) ==
    IF ~_isPremium(status)
    THEN [ go |-> FALSE, success |-> FALSE, syncedCount |-> 0,
           error |-> "Cloud sync requires premium license" ]
    ELSE IF _getLicenseKey(key) = NULL
    THEN [ go |-> FALSE, success |-> FALSE, syncedCount |-> 0,
           error |-> "No license key found" ]
    ELSE [ go |-> TRUE, success |-> FALSE, syncedCount |-> 0, error |-> UNDEFINED ]

\* a sync that sends its request whatever the trust level
SyncIgnoresTrust(status, key, pending) ==
    IF _getLicenseKey(key) = NULL
    THEN [ go |-> FALSE, success |-> FALSE, syncedCount |-> 0,
           error |-> "No license key found" ]
    ELSE [ go |-> TRUE, success |-> FALSE, syncedCount |-> 0, error |-> UNDEFINED ]

\* the checks syncToCloud makes before its request (lines 1520-1534): go tells
\* whether the request is made; otherwise the rest is what is returned
SyncPrecheck(status, key, pending) ==
    IF ~_isPremium(status)
    THEN [ go |-> FALSE, success |-> FALSE, syncedCount |-> 0,
           error |-> "Cloud sync requires premium license" ]
    ELSE IF _getLicenseKey(key) = NULL
    THEN [ go |-> FALSE, success |-> FALSE, syncedCount |-> 0,
           error |-> "No license key found" ]
    ELSE IF Len(pending) = 0
    THEN [ go |-> FALSE, success |-> TRUE, syncedCount |-> 0, error |-> UNDEFINED ]
    ELSE [ go |-> TRUE, success |-> FALSE, syncedCount |-> 0, error |-> UNDEFINED ]

\* a sync that empties the queue whatever the server answered
SyncAlwaysDrains(history, items, answer, markOk, clearOk) ==
    [ translationHistory |-> history, cleared |-> TRUE, branch |-> answer.kind,
      ret |-> [ success |-> answer.kind = "ok" /\ answer.success,
                syncedCount |-> answer.syncedCount, error |-> "error" ] ]

\* syncToCloud from its request on (lines 1536-1577): `items` were sent and
\* `answer` came back; history is the stored history at that moment.  markOk
\* and clearOk: whether the storage.set of _markItemsAsSynced and that of
\* _storePendingSyncItems([]) succeed; a failed one rejects into the catch.
\* cleared tells whether the queue was overwritten with the empty list.
SyncCompletion(history, items, answer, markOk, clearOk) ==
    LET failed(branch, error) ==
          [ translationHistory |-> history, cleared |-> FALSE, branch |-> branch,
            ret |-> [success |-> FALSE, syncedCount |-> 0, error |-> error] ]
        itemIds == {items[i].id : i \in 1..Len(items)}
    IN  IF answer.kind = "network"
        THEN failed("network", "Failed to fetch")
        ELSE IF answer.kind = "http_error"
        THEN failed("http_error", "Sync failed with status 500")
        ELSE IF answer.kind = "bad_body"
        THEN failed("bad_body", "Unexpected token")
        ELSE IF ~answer.success
        THEN failed("refused", "Invalid license key")
        ELSE IF ~markOk
        THEN failed("mark_failed", "QUOTA_BYTES quota exceeded")
        ELSE IF ~clearOk
        THEN [ failed("clear_failed", "QUOTA_BYTES quota exceeded") EXCEPT
                 !.translationHistory = MarkItems(history, itemIds) ]
        ELSE [ translationHistory |-> MarkItems(history, itemIds),
               cleared |-> TRUE, branch |-> "synced",
               ret |-> [ success |-> TRUE, syncedCount |-> answer.syncedCount,
                         error |-> UNDEFINED ] ]

\* a clear that empties the pending-sync queue as well
ClearHistoryAndQueue(h, writeOk) ==
    [ ok |-> writeOk,
      translationHistory |-> IF writeOk THEN <<>> ELSE h.translationHistory,
      pendingSyncItems |-> IF writeOk THEN <<>> ELSE h.pendingSyncItems ]

\* HistoryManager.clearHistory() (lines 1493-1512) and the popup's Clear
\* button (popup.js 425-430): one storage.set of the empty list under the
\* history key; writeOk tells whether that write succeeds
clearHistory(h, writeOk) ==
    [ ok |-> writeOk,
      translationHistory |-> IF writeOk THEN <<>> ELSE h.translationHistory,
      pendingSyncItems |-> h.pendingSyncItems ]

\* the checks fetchFromCloud makes before its request (lines 1585-1593)
FetchPrecheck(status, key) ==
    IF ~_isPremium(status)
    THEN [go |-> FALSE, error |-> "Cloud sync requires premium license"]
    ELSE IF _getLicenseKey(key) = NULL
    THEN [go |-> FALSE, error |-> "No license key found"]
    ELSE [go |-> TRUE, error |-> UNDEFINED]

\* an item the history server holds
CloudItem(id, timestamp) ==
    [ id |-> id, original |-> "cloud", translation |-> "nuage",
      sourceLang |-> "en", targetLang |-> "fr", engine |-> "gemini",
      tone |-> "neutral", timestamp |-> timestamp, synced |-> TRUE ]

\* the item lists the server answers with: none, one unknown here and newer
\* than anything local, and an older pair of which one has the id of the first
\* local item
CloudLists ==
    { <<>>,
      << CloudItem(101, StartDay * DAY + 1) >>,
      << CloudItem(1, StartDay * DAY - 1), CloudItem(102, StartDay * DAY - 1) >> }

\* what the history server can answer to a fetch request
FetchAnswers ==
    { [kind |-> "ok", success |-> TRUE, items |-> l] : l \in CloudLists }
    \cup { [kind |-> "ok", success |-> FALSE, items |-> <<>>],
           [kind |-> "http_error", success |-> FALSE, items |-> <<>>],
           [kind |-> "bad_body", success |-> FALSE, items |-> <<>>],
           [kind |-> "network", success |-> FALSE, items |-> <<>>] }

\* the answers possible once the ids below `next` have been generated here:
\* an id (time and random suffix, _generateId) names one item, so the server
\* holds an item with a local id only after that item was created
FetchAnswersAfter(next) ==
    { a \in FetchAnswers :
        \A k \in 1..Len(a.items) :
           a.items[k].id <= MaxItems + 1 => a.items[k].id < next }

\* x put into the list `sorted`, behind every item that is not older than x
InsertByTimestamp(sorted, x) ==
    LET older == {i \in 1..Len(sorted) : sorted[i].timestamp < x.timestamp}
        at == IF older = {} THEN Len(sorted) + 1
              ELSE CHOOSE i \in older : \A j \in older : i <= j
    IN  SubSeq(sorted, 1, at - 1) \o <<x>> \o SubSeq(sorted, at, Len(sorted))

\* Array.prototype.sort with (a, b) => new Date(b.timestamp) - new
\* Date(a.timestamp): newest first, stable
RECURSIVE SortNewestFirst(_)
SortNewestFirst(list) ==
    IF list = <<>> THEN <<>>
    ELSE InsertByTimestamp(SortNewestFirst(SubSeq(list, 1, Len(list) - 1)),
                           list[Len(list)])

\* the history HistoryManager._mergeCloudHistory(cloudItems) hands to
\* setHistory; changed tells whether it calls setHistory at all
_mergeCloudHistory(localHistory, cloudItems) ==
    LET localIds == {localHistory[i].id : i \in 1..Len(localHistory)}
        newItems == SelectSeq(cloudItems, LAMBDA c : c.id \notin localIds)
    IN  IF Len(newItems) = 0
        THEN [changed |-> FALSE, history |-> localHistory]
        ELSE [changed |-> TRUE,
              history |-> SortNewestFirst(localHistory \o newItems)]

\* a fetch that reports success whatever the server answered
FetchAlwaysSucceeds(history, answer, writeOk) ==
    [ translationHistory |-> history, branch |-> "fetched",
      ret |-> [success |-> TRUE, items |-> answer.items, error |-> UNDEFINED] ]

\* fetchFromCloud from its request on (lines 1595-1629); writeOk: whether the
\* storage.set of setHistory succeeds
FetchCompletion(history, answer, writeOk) ==
    LET failed(branch, error) ==
          [ translationHistory |-> history, branch |-> branch,
            ret |-> [success |-> FALSE, items |-> <<>>, error |-> error] ]
        merged == _mergeCloudHistory(history, answer.items)
    IN  IF answer.kind = "network"
        THEN failed("network", "Failed to fetch")
        ELSE IF answer.kind = "http_error"
        THEN failed("http_error", "Fetch failed with status 500")
        ELSE IF answer.kind = "bad_body"
        THEN failed("bad_body", "Unexpected token")
        ELSE IF ~answer.success
        THEN failed("refused", "Invalid license key")
        ELSE IF merged.changed /\ ~writeOk
        THEN failed("write_failed", "QUOTA_BYTES quota exceeded")
        ELSE [ translationHistory |-> merged.history, branch |-> "fetched",
               ret |-> [ success |-> TRUE, items |-> answer.items,
                         error |-> UNDEFINED ] ]

\* HistoryManager.syncToCloud() on h = [licenseStatus, licenseKey,
\* translationHistory, pendingSyncItems]: the stores after the call, what is
\* returned, whether a request was made and the items it carried
syncToCloud(h, answer, markOk, clearOk) ==
    LET pre == SyncPrecheck(h.licenseStatus, h.licenseKey, h.pendingSyncItems)
        pendingItems == h.pendingSyncItems
        c == SyncCompletion(h.translationHistory, pendingItems, answer,
                            markOk, clearOk)
    IN  IF ~pre.go
        THEN [ translationHistory |-> h.translationHistory,
               pendingSyncItems |-> h.pendingSyncItems,
               ret |-> [ success |-> pre.success, syncedCount |-> pre.syncedCount,
                         error |-> pre.error ],
               branch |-> IF pre.success THEN "empty" ELSE "not_allowed",
               requested |-> FALSE, sent |-> <<>> ]
        ELSE [ translationHistory |-> c.translationHistory,
               pendingSyncItems |-> IF c.cleared THEN <<>> ELSE h.pendingSyncItems,
               ret |-> c.ret, branch |-> c.branch,
               requested |-> TRUE, sent |-> pendingItems ]

\* HistoryManager.fetchFromCloud() on h
fetchFromCloud(h, answer, writeOk) ==
    LET pre == FetchPrecheck(h.licenseStatus, h.licenseKey)
        c == FetchCompletion(h.translationHistory, answer, writeOk)
    IN  IF ~pre.go
        THEN [ translationHistory |-> h.translationHistory,
               ret |-> [success |-> FALSE, items |-> <<>>, error |-> pre.error],
               branch |-> "not_allowed", requested |-> FALSE ]
        ELSE [ translationHistory |-> c.translationHistory, ret |-> c.ret,
               branch |-> c.branch, requested |-> TRUE ]

-----------------------------------------------------------------------------
(* FeatureGate and the background worker *)

FREE_PROVIDERS == {"gemini", "deepseek"}
FREE_TONES == {"neutral"}

\* FeatureGate._isPremium(): the gate's own cached status when it has one,
\* the license manager's otherwise
FeatureGate_isPremium(gate, cached) ==
    IF gate # NoStatus THEN gate.isPremium = TRUE
    ELSE cached # NoStatus /\ cached.isPremium = TRUE

\* the catalogs of constants.js, by id (an entry's name and hint are copied
\* into the result as they are)
PROVIDERS == <<"gemini", "openai", "deepseek", "claude", "groq">>
TONES == <<"neutral", "formal", "casual", "friendly", "professional",
           "academic", "simple">>
PREMIUM_PROVIDERS == {"openai", "claude", "groq"}
PREMIUM_TONES == {"formal", "casual", "friendly", "professional", "academic",
                  "simple"}

\* `isPremium !== null ? isPremium : this._isPremium()`: the trust level a
\* FeatureGate method works with; isPremium is <<>> when the argument is null
\* or left out, and <<b>> when the boolean b is passed
GatePremium(isPremium, gate, cached) ==
    IF isPremium # <<>> THEN isPremium[1] ELSE FeatureGate_isPremium(gate, cached)

\* a catalog that leaves out what is not available
CatalogWithoutUnavailable(isPremium, gate, cached) ==
    LET premium == GatePremium(isPremium, gate, cached)
        open == SelectSeq(PROVIDERS, LAMBDA id : premium \/ id \in FREE_PROVIDERS)
    IN  [ i \in 1..Len(open) |->
            [ id |-> open[i], available |-> TRUE,
              isPremium |-> open[i] \in PREMIUM_PROVIDERS ] ]

\* FeatureGate.getAvailableProviders(isPremium)
getAvailableProviders(isPremium, gate, cached) ==
    LET premium == GatePremium(isPremium, gate, cached)
    IN  [ i \in 1..Len(PROVIDERS) |->
            [ id |-> PROVIDERS[i],
              available |-> premium \/ PROVIDERS[i] \in FREE_PROVIDERS,
              isPremium |-> PROVIDERS[i] \in PREMIUM_PROVIDERS ] ]

\* FeatureGate.getAvailableTones(isPremium)
getAvailableTones(isPremium, gate, cached) ==
    LET premium == GatePremium(isPremium, gate, cached)
    IN  [ i \in 1..Len(TONES) |->
            [ id |-> TONES[i],
              available |-> premium \/ TONES[i] \in FREE_TONES,
              isPremium |-> TONES[i] \in PREMIUM_TONES ] ]

\* a gate that lets every provider through
ProviderAlwaysAvailable(providerId, isPremium, gate, cached) == TRUE

\* FeatureGate.isProviderAvailable(providerId, isPremium)
isProviderAvailable(providerId, isPremium, gate, cached) ==
    GatePremium(isPremium, gate, cached) \/ providerId \in FREE_PROVIDERS

\* FeatureGate.isToneAvailable(toneId, isPremium)
isToneAvailable(toneId, isPremium, gate, cached) ==
    GatePremium(isPremium, gate, cached) \/ toneId \in FREE_TONES

\* A feature name is the sequence of its pieces: a piece is either the
\* separator ":" or a run of text without one, so 'provider:openai' is
\* <<"provider", ":", "openai">> and the empty string is << >>.
\* `type + ':' + id`
Feature(type, id) == <<type, ":", id>>

\* String.prototype.split(':'): the runs of text between the separators, an
\* empty run where two separators meet or the string starts or ends with one
RECURSIVE split(_)
split(feature) ==
    IF feature = << >> THEN <<"">>
    ELSE LET parts == split(SubSeq(feature, 1, Len(feature) - 1))
             piece == feature[Len(feature)]
         IN  IF piece = ":" THEN Append(parts, "")
             ELSE [parts EXCEPT ![Len(parts)] = @ \o piece]

\* `const [type, value] = feature.split(':')`: the first two runs, value
\* undefined when the name holds no separator
Destructure(parts) ==
    [ type  |-> parts[1],
      value |-> IF Len(parts) >= 2 THEN parts[2] ELSE UNDEFINED ]

\* LicenseManager._isFreemiumFeature(feature)
_isFreemiumFeature(feature) ==
    LET d == Destructure(split(feature))
    IN  CASE d.type = "provider" -> d.value \in FREE_PROVIDERS
          [] d.type = "tone"     -> d.value \in FREE_TONES
          [] d.type = "history"  -> FALSE
          [] OTHER               -> FALSE

\* a hasFeature that never looks at the in-memory status
HasFeatureIgnoresStatus(feature, cached) == _isFreemiumFeature(feature)

\* LicenseManager.hasFeature(feature) with the in-memory status `cached`
hasFeature(feature, cached) ==
    IF cached = NoStatus \/ ~cached.isPremium
    THEN _isFreemiumFeature(feature)
    ELSE TRUE

\* `tone || 'neutral'`
ToneOrNeutral(tone) == IF Truthy(tone) THEN tone ELSE "neutral"

\* validateFeatureAccess(engine, tone) once the gate holds the status `gate`
validateFeatureAccess(engine, tone, gate, cached) ==
    IF ~isProviderAvailable(engine, <<>>, gate, cached)
    THEN [valid |-> FALSE, error |-> "provider requires a Premium license"]
    ELSE IF ~isToneAvailable(tone, <<>>, gate, cached)
    THEN [valid |-> FALSE, error |-> "tone requires a Premium license"]
    ELSE [valid |-> TRUE, error |-> UNDEFINED]

\* the translate requests the content script sends: a free provider without a
\* tone, a premium provider without a tone, a free provider with a premium tone
Requests ==
    { [ text |-> "hello", engine |-> x[1], apiKey |-> "api-key",
        sourceLang |-> "en", targetLang |-> "id", tone |-> x[2] ] :
      x \in { <<"gemini", UNDEFINED>>, <<"openai", UNDEFINED>>,
              <<"gemini", "formal">> } }

\* what provider.translate resolves with
Translated(text) == "halo"

\* no response was sent
NoResponse == [kind |-> "none"]

\* sendResponse({ success: false, error })
ErrorResponse(error) ==
    [ kind |-> "sent", success |-> FALSE, translation |-> UNDEFINED,
      historyItem |-> UNDEFINED, error |-> error ]

\* a worker that answers with an error when the history could not be written
RespondFailsWithHistory(translation, outcome, item) ==
    IF outcome = "pending" THEN NoResponse
    ELSE IF outcome = "rejected"
    THEN ErrorResponse("Failed to save translation to history")
    ELSE [ kind |-> "sent", success |-> TRUE, translation |-> translation,
           historyItem |-> item, error |-> UNDEFINED ]

\* what the listener answers once the provider returned `translation` and
\* addTranslation ended with `outcome` (handleTranslate 94-119, listener
\* 33-35): historyItem stays null when addTranslation rejected; there is no
\* answer while addTranslation has not settled
Respond(translation, outcome, item) ==
    IF outcome = "pending" THEN NoResponse
    ELSE [ kind |-> "sent", success |-> TRUE, translation |-> translation,
           historyItem |-> IF outcome = "resolved" THEN item ELSE NULL,
           error |-> UNDEFINED ]

\* a worker that starts a sync after every translation
SyncAfterEveryTranslation(outcome, status) == TRUE

\* whether handleTranslate calls syncToCloud (lines 97-113): addTranslation
\* resolved and the getLicenseStatus call after it returned `status`
StartsSync(outcome, status) ==
    outcome = "resolved" /\ status # NoStatus /\ status.isPremium = TRUE

\* the places for addTranslation calls that are open at the same time
Slots == 1..MaxSlots

\* no call is open
Idle == [pc |-> "idle"]

\* the worker has not answered any request yet
NotServed ==
    [ request |-> NoInput, gate |-> NoStatus, providerCalled |-> FALSE,
      outcome |-> "none", item |-> NoInput, after |-> NoStatus,
      syncStarted |-> FALSE, response |-> NoResponse ]

-----------------------------------------------------------------------------
(* The state machine *)

Memory == [ licenseKey |-> licenseKey, licenseStatus |-> licenseStatus,
            cachedStatus |-> cachedStatus ]

\* what an operation that is not getLicenseStatus leaves in `last`
Did(op, ok) ==
    [ op |-> op, branch |-> IF ok THEN "ok" ELSE "rejected",
      preKey |-> UNDEFINED, pre |-> NoStatus,
      validatorCalled |-> FALSE, requested |-> FALSE, answer |-> NoAnswer,
      result |-> "none", wrote |-> FALSE, ret |-> NoStatus,
      input |-> NoInput, sent |-> <<>> ]

\* the status records a caller of storeLicenseStatus passes at time t: premium
\* records (for a well-formed, an empty and a whitespace-only key) and freemium
\* records (with no key, and with the key that "was invalid" of
\* license.test.js 791-798), validated 6 days or 7 days ago, with the cache
\* ending now or in 24 hours
StatusInputs(t) ==
    LET times == { [validatedAt |-> v, cachedUntil |-> c] :
                     v \in {t - GRACE_PERIOD, t - GRACE_PERIOD + DAY},
                     c \in {t, t + CACHE_DURATION} }
    IN  { [ isPremium   |-> TRUE,
            licenseKey  |-> k,
            email       |-> "old@example.com",
            expiresAt   |-> (StartDay + 1) * DAY,
            validatedAt |-> x.validatedAt,
            cachedUntil |-> x.cachedUntil ] : k \in {EMPTY, BLANK, KEY1}, x \in times }
        \cup
        { [ isPremium   |-> FALSE,
            licenseKey  |-> k,
            email       |-> NULL,
            expiresAt   |-> NoTime,
            validatedAt |-> x.validatedAt,
            cachedUntil |-> x.cachedUntil ] : k \in {NULL, KEY1}, x \in times }

Init ==
    /\ now = StartDay * DAY
    /\ licenseKey = UNDEFINED
    /\ licenseStatus = NoStatus
    /\ cachedStatus = NoStatus
    /\ last = Did("init", TRUE)
    /\ translationHistory = <<>>
    /\ pendingSyncItems = <<>>
    /\ nextId = 1
    /\ lastValidated = [k \in WellFormedKeys \cup {TEST_KEY} |-> NoTime]
    /\ recorded = <<>>
    /\ gateStatus = NoStatus
    /\ syncTasks = 0
    /\ served = NotServed
    /\ adding = [slot \in Slots |-> Idle]
    /\ syncing = Idle
    /\ validating = Idle

\* time passes: the clock moves on to the next of the given days (counted from
\* the first state)
Tick(days) ==
    LET later == {d \in days : (StartDay + d) * DAY > now}
    IN  /\ later # {}
        /\ now' = (StartDay + (CHOOSE d \in later : \A e \in later : d <= e)) * DAY
        /\ last' = Did("tick", TRUE)
        /\ UNCHANGED <<licenseVars, historyVars, workerVars, lastValidated>>

\* the license service answered "valid" for key at time t
NoteValidation(answered, key, t) ==
    lastValidated' = IF answered /\ key \in DOMAIN lastValidated
                     THEN [lastValidated EXCEPT ![key] = t]
                     ELSE lastValidated

\* whether getLicenseStatus gets as far as calling the validator: a key is
\* stored and the cache does not answer (lines 105-115)
Revalidates(m, t) ==
    LET storedData == _getStoredLicenseData(m.licenseKey, m.licenseStatus)
    IN  /\ Truthy(storedData.licenseKey)
        /\ ~(storedData.licenseStatus # NoStatus
               /\ _isCacheValid(storedData.licenseStatus, t))

\* a call of licenseManager.getLicenseStatus().  The validator's behaviour and
\* the outcome of the storage write are inputs only when the call reaches them.
GetLicenseStatus(track) ==
    \E stubbed \in IF Revalidates(Memory, now) THEN BOOLEAN ELSE {FALSE} :
    \E answer \in IF Revalidates(Memory, now) /\ ~stubbed
                  THEN ValidateAnswers ELSE {NoAnswer} :
    \E writeOk \in IF Revalidates(Memory, now) /\ ~stubbed
                   THEN BOOLEAN ELSE {TRUE} :
      LET r == getLicenseStatus(Memory, now, stubbed, answer, writeOk)
      IN  /\ licenseKey' = r.licenseKey
          /\ licenseStatus' = r.licenseStatus
          /\ cachedStatus' = r.cachedStatus
          /\ last' = [ op |-> "getLicenseStatus", branch |-> r.branch,
                       preKey |-> licenseKey, pre |-> licenseStatus,
                       validatorCalled |-> r.validatorCalled,
                       requested |-> r.requested, answer |-> r.answer,
                       result |-> r.result, wrote |-> r.wrote, ret |-> r.ret,
                       input |-> NoInput, sent |-> <<>> ]
          /\ NoteValidation(track /\ r.result = "valid", licenseKey, now)
          /\ UNCHANGED <<now, historyVars, workerVars>>

\* the popup's validateLicense (popup.js 116-161): the typed key is trimmed,
\* validated, and on a valid answer the premium record is stored
ActivateLicense(track) ==
    \E typed \in WellFormedKeys \cup {BLANK} :
    \E answer \in IF trim(typed) = EMPTY THEN {NoAnswer} ELSE ValidateAnswers :
    \E writeOk \in IF answer.kind = "ok" /\ answer.valid THEN BOOLEAN ELSE {TRUE} :
      LET key == trim(typed)
          result == validateLicense(key, answer)
          newStatus == PremiumStatus(key, result.license, now)
          w == storeLicenseStatus(Memory, newStatus, writeOk)
      IN  IF key = EMPTY
          THEN /\ last' = Did("activate", FALSE)
               /\ UNCHANGED <<now, licenseVars, historyVars, workerVars, lastValidated>>
          ELSE IF result.valid /\ result.license # NoLicense
          THEN /\ licenseKey' = w.licenseKey
               /\ licenseStatus' = w.licenseStatus
               /\ cachedStatus' = w.cachedStatus
               /\ last' = [Did("activate", w.ok) EXCEPT
                             !.requested = TRUE, !.answer = answer,
                             !.result = "valid", !.wrote = TRUE,
                             !.ret = IF w.ok THEN newStatus ELSE NoStatus]
               /\ NoteValidation(track, key, now)
               /\ UNCHANGED <<now, historyVars, workerVars>>
          ELSE /\ last' = [Did("activate", FALSE) EXCEPT
                             !.requested = TRUE, !.answer = answer,
                             !.result = "invalid"]
               /\ UNCHANGED <<now, licenseVars, historyVars, workerVars, lastValidated>>

\* a premium record without a key, its cache valid for 24 hours
KeylessPremium(t) ==
    { s \in StatusInputs(t) : /\ s.isPremium /\ s.licenseKey = EMPTY
                              /\ s.validatedAt = t - GRACE_PERIOD + DAY
                              /\ s.cachedUntil = t + CACHE_DURATION }

\* the stored freemium statuses that still carry a license key
KeyedFreemium(t) ==
    { s \in StatusInputs(t) : /\ ~s.isPremium /\ s.licenseKey = KEY1
                              /\ s.validatedAt = t - GRACE_PERIOD + DAY
                              /\ s.cachedUntil = t + CACHE_DURATION }

\* a call of licenseManager.storeLicenseStatus(s), with s among `statuses`
StoreLicenseStatus(statuses) ==
    \E writeOk \in BOOLEAN :
    \E s \in IF writeOk THEN statuses
             ELSE {CHOOSE x \in statuses : TRUE} :
      LET w == storeLicenseStatus(Memory, s, writeOk)
      IN  /\ licenseKey' = w.licenseKey
          /\ licenseStatus' = w.licenseStatus
          /\ cachedStatus' = w.cachedStatus
          /\ last' = [Did("storeLicenseStatus", w.ok) EXCEPT !.wrote = TRUE,
                                                             !.input = s]
          /\ UNCHANGED <<now, historyVars, workerVars, lastValidated>>

\* a call of licenseManager.clearLicense()
ClearLicense ==
    \E writeOk \in BOOLEAN :
      LET w == clearLicense(Memory, now, writeOk)
      IN  /\ licenseKey' = w.licenseKey
          /\ licenseStatus' = w.licenseStatus
          /\ cachedStatus' = w.cachedStatus
          /\ last' = [Did("clearLicense", w.ok) EXCEPT !.wrote = TRUE,
                          !.pre = licenseStatus, !.preKey = licenseKey]
          /\ UNCHANGED <<now, historyVars, workerVars, lastValidated>>

\* a call of historyManager.setPremiumStatus(isPremium, key), with key among
\* `keys` (NULL: the argument is left out)
SetPremiumStatus(keys) ==
    \E isPremium \in BOOLEAN, keyArg \in keys, writeOk \in BOOLEAN :
      LET status == setPremiumStatus(isPremium, keyArg, now)
      IN  /\ licenseKey' = IF writeOk THEN status.licenseKey ELSE licenseKey
          /\ licenseStatus' = IF writeOk THEN status ELSE licenseStatus
          /\ last' = [Did("setPremiumStatus", writeOk) EXCEPT !.wrote = TRUE]
          /\ UNCHANGED <<now, cachedStatus, historyVars, workerVars, lastValidated>>

\* the license manager driven through its whole interface
Next ==
    \/ Tick(0..MaxTicks)
    \/ GetLicenseStatus(FALSE)
    \/ ActivateLicense(FALSE)
    \/ StoreLicenseStatus(StatusInputs(now))
    \/ ClearLicense
    \/ SetPremiumStatus({NULL, KEY1})

Spec == Init /\ [][Next]_vars

\* the license manager as the extension drives it: license records come only
\* from validation (the popup's activation, getLicenseStatus) and clearLicense
NextApp ==
    \/ Tick(AppDays)
    \/ GetLicenseStatus(TRUE)
    \/ ActivateLicense(TRUE)
    \/ ClearLicense

SpecApp == Init /\ [][NextApp]_vars

\* a call of historyManager.addTranslation(input), with input among `inputs`
AddTranslation(inputs, track) ==
    /\ nextId <= MaxItems
    /\ \E input \in inputs :
       \E writeOk \in BOOLEAN :
       \E queueOk \in IF writeOk /\ IsPremiumStored(licenseStatus)
                      THEN BOOLEAN ELSE {TRUE} :
         LET h == [ translationHistory |-> translationHistory,
                    pendingSyncItems |-> pendingSyncItems,
                    licenseStatus |-> licenseStatus ]
             r == addTranslation(h, input, nextId, now, writeOk, queueOk)
         IN  /\ translationHistory' = r.translationHistory
             /\ pendingSyncItems' = r.pendingSyncItems
             /\ nextId' = IF r.outcome = "rejected" THEN nextId ELSE nextId + 1
             /\ recorded' = IF track /\ r.outcome # "rejected"
                            THEN Append(recorded, [item |-> r.item,
                                                   premium |-> r.premium])
                            ELSE recorded
             /\ last' = [Did("addTranslation", r.outcome = "resolved") EXCEPT
                           !.branch = r.outcome, !.wrote = TRUE, !.ret = r.item,
                           !.pre = licenseStatus, !.input = input]
             /\ UNCHANGED <<now, licenseVars, lastValidated, workerVars>>

\* the content script stores a translation it got a success response for
SaveToHistory ==
    /\ nextId <= MaxItems
    /\ \E input \in OneInput, writeOk \in BOOLEAN :
         /\ translationHistory' =
              IF writeOk THEN saveToHistory(translationHistory, input, nextId, now)
              ELSE translationHistory
         /\ nextId' = IF writeOk THEN nextId + 1 ELSE nextId
         /\ last' = [Did("saveToHistory", writeOk) EXCEPT !.wrote = TRUE]
         /\ UNCHANGED <<now, licenseVars, pendingSyncItems, lastValidated, recorded,
                        workerVars>>

\* the stores a HistoryManager method reads
Stores == [ licenseStatus |-> licenseStatus, licenseKey |-> licenseKey,
            translationHistory |-> translationHistory,
            pendingSyncItems |-> pendingSyncItems ]

\* a run of historyManager.syncToCloud(): a call of its own (task = FALSE), or
\* one of the calls the background worker started without waiting for it.
\* The server's answer and the outcomes of the writes are inputs only when the
\* call reaches them.
SyncToCloud(task) ==
    /\ task => syncTasks > 0
    /\ LET go == SyncPrecheck(licenseStatus, licenseKey, pendingSyncItems).go
       IN
       \E answer \in IF go THEN SyncAnswers(pendingSyncItems) ELSE {NoAnswer} :
       \E markOk \in IF go /\ answer.kind = "ok" /\ answer.success
                     THEN BOOLEAN ELSE {TRUE} :
       \E clearOk \in IF go /\ answer.kind = "ok" /\ answer.success /\ markOk
                      THEN BOOLEAN ELSE {TRUE} :
         LET r == syncToCloud(Stores, answer, markOk, clearOk)
         IN  /\ translationHistory' = r.translationHistory
             /\ pendingSyncItems' = r.pendingSyncItems
             /\ syncTasks' = IF task THEN syncTasks - 1 ELSE syncTasks
             /\ last' = [Did("syncToCloud", TRUE) EXCEPT
                           !.branch = r.branch, !.pre = licenseStatus,
                           !.preKey = licenseKey, !.requested = r.requested,
                           !.answer = answer, !.ret = r.ret, !.sent = r.sent]
             /\ UNCHANGED <<now, licenseVars, nextId, lastValidated, recorded,
                            gateStatus, served, flightVars>>

\* a call of historyManager.fetchFromCloud()
FetchFromCloud ==
    LET go == FetchPrecheck(licenseStatus, licenseKey).go
    IN
    \E answer \in IF go THEN FetchAnswersAfter(nextId) ELSE {NoAnswer} :
    \E writeOk \in IF go /\ answer.kind = "ok" /\ answer.success
                      /\ _mergeCloudHistory(translationHistory, answer.items).changed
                   THEN BOOLEAN ELSE {TRUE} :
      LET r == fetchFromCloud(Stores, answer, writeOk)
      IN  /\ translationHistory' = r.translationHistory
          /\ last' = [Did("fetchFromCloud", TRUE) EXCEPT
                        !.branch = r.branch, !.pre = licenseStatus,
                        !.preKey = licenseKey, !.requested = r.requested,
                        !.answer = answer, !.ret = r.ret]
          /\ UNCHANGED <<now, licenseVars, pendingSyncItems, nextId,
                         lastValidated, recorded, workerVars>>

\* the background worker handles one translate message (listener 31-38,
\* handleTranslate 83-120), its awaited calls taken together: getLicenseStatus,
\* the gate, the provider, addTranslation, getLicenseStatus again, and the
\* start of a sync that is not awaited.  The license service's answers, the
\* provider's outcome and the outcomes of the storage writes are inputs.
\* Requests get as far as the provider until maxStored translations are stored.
HandleTranslate(maxStored) ==
    \E request \in Requests :
    \E answer1 \in IF Revalidates(Memory, now) THEN ValidateAnswers ELSE {NoAnswer} :
    \E write1 \in IF Revalidates(Memory, now) THEN BOOLEAN ELSE {TRUE} :
    \E g1 \in {getLicenseStatus(Memory, now, FALSE, answer1, write1)} :
      LET m1 == [ licenseKey |-> g1.licenseKey, licenseStatus |-> g1.licenseStatus,
                  cachedStatus |-> g1.cachedStatus ]
          tone == ToneOrNeutral(request.tone)
          accessCheck == validateFeatureAccess(request.engine, tone, g1.ret,
                                               g1.cachedStatus)
          refused == [NotServed EXCEPT !.request = request, !.gate = g1.ret,
                         !.response = ErrorResponse(accessCheck.error)]
      IN
      /\ gateStatus' = g1.ret
      /\ IF ~accessCheck.valid
         THEN /\ licenseKey' = m1.licenseKey
              /\ licenseStatus' = m1.licenseStatus
              /\ cachedStatus' = m1.cachedStatus
              /\ served' = refused
              /\ last' = [Did("handleTranslate", FALSE) EXCEPT
                            !.branch = "refused", !.pre = licenseStatus,
                            !.preKey = licenseKey, !.input = request]
              /\ UNCHANGED <<now, historyVars, syncTasks, lastValidated, flightVars>>
         ELSE
         \E providerOk \in IF nextId <= maxStored THEN BOOLEAN ELSE {} :
         \E writeOk \in IF providerOk THEN BOOLEAN ELSE {TRUE} :
         \E queueOk \in IF providerOk /\ writeOk /\ IsPremiumStored(m1.licenseStatus)
                        THEN BOOLEAN ELSE {TRUE} :
           LET translation == Translated(request.text)
               input == [ original |-> request.text, translation |-> translation,
                          sourceLang |-> request.sourceLang,
                          targetLang |-> request.targetLang,
                          engine |-> request.engine, tone |-> tone ]
               h == [ translationHistory |-> translationHistory,
                      pendingSyncItems |-> pendingSyncItems,
                      licenseStatus |-> m1.licenseStatus ]
           IN
           \E a \in {addTranslation(h, input, nextId, now, writeOk, queueOk)} :
           IF ~providerOk
           THEN /\ licenseKey' = m1.licenseKey
                /\ licenseStatus' = m1.licenseStatus
                /\ cachedStatus' = m1.cachedStatus
                /\ served' = [refused EXCEPT !.providerCalled = TRUE,
                                 !.response = ErrorResponse("provider error")]
                /\ last' = [Did("handleTranslate", FALSE) EXCEPT
                              !.branch = "provider_failed", !.pre = licenseStatus,
                              !.preKey = licenseKey, !.input = request]
                /\ UNCHANGED <<now, historyVars, syncTasks, lastValidated, flightVars>>
           ELSE
           \E answer2 \in IF a.outcome = "resolved" /\ Revalidates(m1, now)
                           THEN ValidateAnswers ELSE {NoAnswer} :
           \E write2 \in IF a.outcome = "resolved" /\ Revalidates(m1, now)
                          THEN BOOLEAN ELSE {TRUE} :
           \E g2 \in IF a.outcome = "resolved"
                      THEN {getLicenseStatus(m1, now, FALSE, answer2, write2)}
                      ELSE {g1} :
             LET after == IF a.outcome = "resolved" THEN g2.ret ELSE NoStatus
                 m2 == IF a.outcome = "resolved"
                       THEN [ licenseKey |-> g2.licenseKey,
                              licenseStatus |-> g2.licenseStatus,
                              cachedStatus |-> g2.cachedStatus ]
                       ELSE m1
                 starts == StartsSync(a.outcome, after)
             IN  /\ licenseKey' = m2.licenseKey
                 /\ licenseStatus' = m2.licenseStatus
                 /\ cachedStatus' = m2.cachedStatus
                 /\ translationHistory' = a.translationHistory
                 /\ pendingSyncItems' = a.pendingSyncItems
                 /\ nextId' = IF a.outcome = "rejected" THEN nextId ELSE nextId + 1
                 /\ syncTasks' = IF starts THEN syncTasks + 1 ELSE syncTasks
                 /\ served' = [ request |-> request, gate |-> g1.ret,
                                providerCalled |-> TRUE, outcome |-> a.outcome,
                                item |-> a.item, after |-> after,
                                syncStarted |-> starts,
                                response |-> Respond(translation, a.outcome, a.item) ]
                 /\ last' = [Did("handleTranslate", a.outcome # "pending") EXCEPT
                               !.branch = IF a.outcome = "pending" THEN "pending"
                                          ELSE "answered",
                               !.pre = licenseStatus, !.preKey = licenseKey,
                               !.input = request]
                 /\ UNCHANGED <<now, lastValidated, recorded, flightVars>>

\* a call of featureGate.updateLicenseStatus(status), status among `statuses`
UpdateLicenseStatus(statuses) ==
    \E status \in statuses :
      /\ gateStatus' = status
      /\ last' = Did("updateLicenseStatus", TRUE)
      /\ UNCHANGED <<now, licenseVars, historyVars, served, syncTasks,
                     lastValidated, flightVars>>

\* the values a caller passes for the optional isPremium argument
Overrides == {<<>>, <<TRUE>>, <<FALSE>>}

\* a FeatureGate query `op` answering `ret` for the arguments `input`
GateQuery(op, input, ret) ==
    /\ last' = [Did(op, TRUE) EXCEPT !.input = input, !.ret = ret]
    /\ UNCHANGED <<now, licenseVars, historyVars, workerVars, lastValidated>>

\* a call of featureGate.getAvailableProviders(isPremium)
GetAvailableProviders ==
    \E isPremium \in Overrides :
      GateQuery("getAvailableProviders", [id |-> NULL, isPremium |-> isPremium],
                getAvailableProviders(isPremium, gateStatus, cachedStatus))

\* a call of featureGate.getAvailableTones(isPremium)
GetAvailableTones ==
    \E isPremium \in Overrides :
      GateQuery("getAvailableTones", [id |-> NULL, isPremium |-> isPremium],
                getAvailableTones(isPremium, gateStatus, cachedStatus))

\* a call of featureGate.isProviderAvailable(id, isPremium)
IsProviderAvailable ==
    \E i \in 1..Len(PROVIDERS), isPremium \in Overrides :
      GateQuery("isProviderAvailable", [id |-> PROVIDERS[i], isPremium |-> isPremium],
                isProviderAvailable(PROVIDERS[i], isPremium, gateStatus, cachedStatus))

\* a call of featureGate.isToneAvailable(id, isPremium)
IsToneAvailable ==
    \E i \in 1..Len(TONES), isPremium \in Overrides :
      GateQuery("isToneAvailable", [id |-> TONES[i], isPremium |-> isPremium],
                isToneAvailable(TONES[i], isPremium, gateStatus, cachedStatus))

\* the feature gate queried while its own status and the license manager's
\* cached status change
\* the ids a feature is asked about: those of the catalog, one that the
\* catalog does not list, the two history features and the empty id
FeatureIds ==
    { PROVIDERS[i] : i \in 1..Len(PROVIDERS) } \cup { TONES[i] : i \in 1..Len(TONES) }
      \cup {"mistral", "unlimited", "sync", EMPTY}

\* the feature names hasFeature is asked about: every `type:id`, a name
\* without a separator, a name with two, and the empty name
FeatureInputs ==
    { Feature(type, id) : type \in {"provider", "tone", "history", "theme"},
                          id \in FeatureIds }
      \cup { <<"provider">>, <<"history">>, << >>,
             <<"provider", ":", "gemini", ":", "pro">>,
             <<"history", ":", "sync", ":", "all">> }

\* a call of licenseManager.hasFeature(feature)
HasFeature ==
    \E feature \in FeatureInputs :
      GateQuery("hasFeature", [feature |-> feature],
                hasFeature(feature, cachedStatus))

\* the license manager and the feature gate, asked about features
NextFeature ==
    \/ GetLicenseStatus(FALSE)
    \/ StoreLicenseStatus(KeylessPremium(now) \cup KeyedFreemium(now))
    \/ ClearLicense
    \/ SetPremiumStatus({KEY1})
    \/ UpdateLicenseStatus(KeylessPremium(now) \cup KeyedFreemium(now))
    \/ HasFeature

SpecFeature == Init /\ [][NextFeature]_vars

NextGate ==
    \/ UpdateLicenseStatus(KeylessPremium(now) \cup KeyedFreemium(now))
    \/ StoreLicenseStatus(KeylessPremium(now) \cup KeyedFreemium(now))
    \/ GetAvailableProviders
    \/ GetAvailableTones
    \/ IsProviderAvailable
    \/ IsToneAvailable

SpecGate == Init /\ [][NextGate]_vars

\* how far from now, in hours, the expiry of a status given to
\* checkExpirationWarning lies: from two days ago to nine days ahead
ExpiryOffsets == (0 - 2 * DAY) .. (9 * DAY)

\* the statuses given to checkExpirationWarning at time t: none, the freemium
\* default, a premium status without expiry, and premium statuses expiring
\* around t
WarningInputs(t) ==
    {NoStatus, _getFreemiumStatus(t)}
    \cup { [ isPremium |-> TRUE, licenseKey |-> KEY1, email |-> "old@example.com",
             expiresAt |-> e, validatedAt |-> t, cachedUntil |-> t + CACHE_DURATION ] :
           e \in {NoTime} \cup {t + h : h \in ExpiryOffsets} }

\* a call of checkExpirationWarning(status, new Date(now))
CheckExpirationWarning ==
    \E status \in WarningInputs(now) :
      /\ last' = [Did("checkExpirationWarning", TRUE) EXCEPT
                    !.pre = status, !.input = [now |-> now],
                    !.ret = checkExpirationWarning(status, now)]
      /\ UNCHANGED <<now, licenseVars, historyVars, workerVars, lastValidated>>

\* the expiration warning asked for on different days
NextWarning ==
    \/ CheckExpirationWarning
    \/ Tick(0..MaxTicks)

SpecWarning == Init /\ [][NextWarning]_vars

\* the content script's handleTranslate from the worker's response on
\* (popup.js 885-897): a success is shown and handed to saveToHistory, an
\* error is shown.  The worker's answer to the request is the one in `served`.
ContentResponse ==
    /\ last.op = "handleTranslate"
    /\ served.response.kind = "sent"
    /\ IF served.response.success
       THEN \E writeOk \in BOOLEAN :
              LET input == [ original |-> served.request.text,
                             translation |-> served.response.translation,
                             engine |-> served.request.engine,
                             sourceLang |-> served.request.sourceLang,
                             targetLang |-> served.request.targetLang ]
              IN  /\ translationHistory' =
                       IF writeOk
                       THEN saveToHistory(translationHistory, input, nextId, now)
                       ELSE translationHistory
                  /\ nextId' = IF writeOk THEN nextId + 1 ELSE nextId
                  /\ last' = [Did("content.response", writeOk) EXCEPT
                                !.wrote = TRUE, !.input = served.request]
       ELSE /\ UNCHANGED <<translationHistory, nextId>>
            /\ last' = [Did("content.response", TRUE) EXCEPT
                          !.input = served.request]
    /\ UNCHANGED <<now, licenseVars, pendingSyncItems, recorded, lastValidated,
                   workerVars>>

\* translate requests of the content script, answered by the worker
NextContent ==
    \/ HandleTranslate(MaxRequests)
    \/ ContentResponse
    \/ SetPremiumStatus({NULL})
    \/ Tick({1})

SpecContent == Init /\ [][NextContent]_vars

\* a call of historyManager.clearHistory()
ClearHistory ==
    \E writeOk \in BOOLEAN :
      LET r == clearHistory(Stores, writeOk)
      IN  /\ translationHistory' = r.translationHistory
          /\ pendingSyncItems' = r.pendingSyncItems
          /\ last' = [Did("clearHistory", r.ok) EXCEPT !.wrote = TRUE,
                        !.pre = licenseStatus, !.preKey = licenseKey,
                        !.sent = pendingSyncItems]
          /\ UNCHANGED <<now, licenseVars, nextId, recorded, lastValidated,
                         workerVars>>

\* recording, clearing and syncing, with the license changing underneath
NextClear ==
    \/ (nextId <= MaxSyncItems /\ AddTranslation(OneInput, FALSE))
    \/ SetPremiumStatus({NULL})
    \/ ClearHistory
    \/ SyncToCloud(FALSE)

SpecClear == Init /\ [][NextClear]_vars

\* The calls of the history manager, callback by callback.  The worker's
\* listener starts handleTranslate for every message without waiting for the
\* one before (part_005 31-38), and chrome.storage.local answers get and set
\* through callbacks, so the steps of several calls interleave.

\* a call of historyManager.addTranslation(item): the item is built (lines
\* 1386-1396) and storage.get is asked for the history and the status (1415)
AddTranslationCall(slot) ==
    /\ adding[slot] = Idle
    /\ \E input \in OneInput :
         /\ adding' = [adding EXCEPT ![slot] =
                         [pc |-> "get", item |-> NewHistoryItem(input, nextId, now)]]
         /\ nextId' = nextId + 1
         /\ last' = [Did("addTranslation.call", TRUE) EXCEPT !.input = input]
    /\ UNCHANGED <<now, licenseVars, translationHistory, pendingSyncItems,
                   recorded, lastValidated, gateStatus, served, syncTasks,
                   syncing, validating>>

\* the callback of that storage.get (lines 1415-1422): the history and the
\* trust level are read, the new list is computed and storage.set is asked to
\* write it
AddTranslationRead(slot) ==
    /\ adding[slot].pc = "get"
    /\ LET history == translationHistory
           isPremium == IsPremiumStored(licenseStatus)
           updatedHistory == _addToHistory(adding[slot].item, history, isPremium)
       IN  adding' = [adding EXCEPT ![slot] =
                        [pc |-> "set", item |-> adding[slot].item,
                         isPremium |-> isPremium,
                         updatedHistory |-> updatedHistory]]
    /\ last' = Did("addTranslation.read", TRUE)
    /\ UNCHANGED <<now, licenseVars, historyVars, lastValidated, gateStatus,
                   served, syncTasks, syncing, validating>>

\* the callback of that storage.set (lines 1422-1433): the write failed and
\* the call rejects, or the list is stored; under premium trust the call goes
\* on to _addToPendingSyncQueue and asks for the queue (1638-1639), otherwise
\* it resolves
AddTranslationWrite(slot) ==
    /\ adding[slot].pc = "set"
    /\ \E writeOk \in BOOLEAN :
         /\ translationHistory' = IF writeOk THEN adding[slot].updatedHistory
                                  ELSE translationHistory
         /\ adding' = [adding EXCEPT ![slot].pc =
                         IF ~writeOk THEN "rejected"
                         ELSE IF adding[slot].isPremium THEN "queue_get"
                         ELSE "resolved"]
         /\ last' = [Did("addTranslation.write", writeOk) EXCEPT !.wrote = TRUE]
    /\ UNCHANGED <<now, licenseVars, pendingSyncItems, nextId, recorded,
                   lastValidated, gateStatus, served, syncTasks, syncing,
                   validating>>

\* _addToPendingSyncQueue has read the queue (lines 1639-1644): an item that
\* is queued already ends the call, otherwise the queue with the item pushed
\* is handed to _storePendingSyncItems
AddTranslationQueueRead(slot) ==
    /\ adding[slot].pc = "queue_get"
    /\ LET pendingItems == pendingSyncItems
           exists == \E i \in 1..Len(pendingItems) :
                        pendingItems[i].id = adding[slot].item.id
       IN  adding' = [adding EXCEPT ![slot] =
                        IF exists
                        THEN [adding[slot] EXCEPT !.pc = "resolved"]
                        ELSE [pc |-> "queue_set", item |-> adding[slot].item,
                              isPremium |-> adding[slot].isPremium,
                              updatedHistory |-> adding[slot].updatedHistory,
                              pendingItems |-> Append(pendingItems,
                                                      adding[slot].item)]]
    /\ last' = Did("addTranslation.queueRead", TRUE)
    /\ UNCHANGED <<now, licenseVars, historyVars, lastValidated, gateStatus,
                   served, syncTasks, syncing, validating>>

\* the callback of the storage.set of _storePendingSyncItems (1356-1362): the
\* queue is stored and addTranslation resolves, or the write failed and
\* addTranslation never settles
AddTranslationQueueWrite(slot) ==
    /\ adding[slot].pc = "queue_set"
    /\ \E queueOk \in BOOLEAN :
         /\ pendingSyncItems' = IF queueOk THEN adding[slot].pendingItems
                                ELSE pendingSyncItems
         /\ adding' = [adding EXCEPT ![slot].pc =
                         IF queueOk THEN "resolved" ELSE "pending"]
         /\ last' = [Did("addTranslation.queueWrite", queueOk) EXCEPT
                       !.wrote = TRUE]
    /\ UNCHANGED <<now, licenseVars, translationHistory, nextId, recorded,
                   lastValidated, gateStatus, served, syncTasks, syncing,
                   validating>>

\* a call of historyManager.syncToCloud() up to its request (lines 1519-1546):
\* a call that is refused or finds the queue empty returns at once; otherwise
\* the queue as read is sent and the call waits for the answer
SyncToCloudSend ==
    /\ syncing = Idle
    /\ LET pre == SyncPrecheck(licenseStatus, licenseKey, pendingSyncItems)
           r == syncToCloud(Stores, NoAnswer, TRUE, TRUE)
       IN  IF ~pre.go
           THEN /\ syncing' = syncing
                /\ last' = [Did("syncToCloud", TRUE) EXCEPT
                              !.branch = r.branch, !.pre = licenseStatus,
                              !.preKey = licenseKey, !.ret = r.ret]
           ELSE /\ syncing' = [pc |-> "sent", pendingItems |-> pendingSyncItems]
                /\ last' = [Did("syncToCloud.send", TRUE) EXCEPT
                              !.pre = licenseStatus, !.preKey = licenseKey,
                              !.requested = TRUE, !.sent = pendingSyncItems]
    /\ UNCHANGED <<now, licenseVars, historyVars, lastValidated, gateStatus,
                   served, syncTasks, adding, validating>>

\* the rest of that call, from the answer on (lines 1548-1577): on success
\* the items that were sent are marked in the history as it is stored now and
\* the queue is overwritten with the empty list
SyncToCloudAnswer ==
    /\ syncing # Idle
    /\ \E answer \in SyncAnswers(syncing.pendingItems) :
       \E markOk \in IF answer.kind = "ok" /\ answer.success
                     THEN BOOLEAN ELSE {TRUE} :
       \E clearOk \in IF answer.kind = "ok" /\ answer.success /\ markOk
                      THEN BOOLEAN ELSE {TRUE} :
         LET c == SyncCompletion(translationHistory, syncing.pendingItems,
                                 answer, markOk, clearOk)
         IN  /\ translationHistory' = c.translationHistory
             /\ pendingSyncItems' = IF c.cleared THEN <<>> ELSE pendingSyncItems
             /\ syncing' = Idle
             /\ last' = [Did("syncToCloud", TRUE) EXCEPT
                           !.branch = c.branch, !.requested = TRUE,
                           !.answer = answer, !.ret = c.ret,
                           !.sent = syncing.pendingItems]
    /\ UNCHANGED <<now, licenseVars, nextId, recorded, lastValidated, gateStatus,
                   served, syncTasks, adding, validating>>

\* the history manager with its calls open side by side
NextRace ==
    \/ SetPremiumStatus({NULL})
    \/ \E slot \in Slots : AddTranslationCall(slot)
    \/ \E slot \in Slots : AddTranslationRead(slot)
    \/ \E slot \in Slots : AddTranslationWrite(slot)
    \/ \E slot \in Slots : AddTranslationQueueRead(slot)
    \/ \E slot \in Slots : AddTranslationQueueWrite(slot)
    \/ SyncToCloudSend
    \/ SyncToCloudAnswer

SpecRace == Init /\ [][NextRace]_vars

\* a call of licenseManager.getLicenseStatus() up to its request (lines
\* 100-119): without a stored key, or with a valid cache, it returns at once;
\* otherwise it holds the key and the status it read and waits for
\* validateLicense
GetLicenseStatusCall ==
    /\ validating = Idle
    /\ LET r == getLicenseStatus(Memory, now, FALSE, NoAnswer, TRUE)
       IN  IF ~Revalidates(Memory, now)
           THEN /\ cachedStatus' = r.cachedStatus
                /\ validating' = validating
                /\ last' = [Did("getLicenseStatus", TRUE) EXCEPT
                              !.branch = r.branch, !.preKey = licenseKey,
                              !.pre = licenseStatus, !.ret = r.ret]
           ELSE /\ cachedStatus' = cachedStatus
                /\ validating' = [pc |-> "request", licenseKey |-> licenseKey,
                                  licenseStatus |-> licenseStatus]
                /\ last' = [Did("getLicenseStatus.call", TRUE) EXCEPT
                              !.preKey = licenseKey, !.pre = licenseStatus,
                              !.validatorCalled = TRUE]
    /\ UNCHANGED <<now, licenseKey, licenseStatus, historyVars, lastValidated,
                   gateStatus, served, syncTasks, adding, syncing>>

\* the rest of that call, from the result of validateLicense on (lines
\* 119-154), with the key and the status the call read before it waited:
\* storeLicenseStatus writes the key and the new status, and when nothing is
\* written the store stays as it is now
GetLicenseStatusAnswer ==
    /\ validating # Idle
    /\ \E answer \in ValidateAnswers, writeOk \in BOOLEAN :
         LET read == [ licenseKey |-> validating.licenseKey,
                       licenseStatus |-> validating.licenseStatus,
                       cachedStatus |-> cachedStatus ]
             r == getLicenseStatus(read, now, FALSE, answer, writeOk)
             stored == r.branch \in {"valid", "invalid"}
         IN  /\ licenseKey' = IF stored THEN r.licenseKey ELSE licenseKey
             /\ licenseStatus' = IF stored THEN r.licenseStatus ELSE licenseStatus
             /\ cachedStatus' = r.cachedStatus
             /\ validating' = Idle
             /\ last' = [ op |-> "getLicenseStatus", branch |-> r.branch,
                          preKey |-> licenseKey, pre |-> licenseStatus,
                          validatorCalled |-> r.validatorCalled,
                          requested |-> r.requested, answer |-> r.answer,
                          result |-> r.result, wrote |-> r.wrote, ret |-> r.ret,
                          input |-> NoInput, sent |-> <<>> ]
    /\ UNCHANGED <<now, historyVars, lastValidated, gateStatus, served,
                   syncTasks, adding, syncing>>

\* the license manager with a getLicenseStatus call open while the license
\* is set and cleared and a day passes
NextRaceLicense ==
    \/ Tick(0..MaxTicks)
    \/ GetLicenseStatusCall
    \/ GetLicenseStatusAnswer
    \/ ClearLicense
    \/ SetPremiumStatus({NULL, KEY1})

SpecRaceLicense == Init /\ [][NextRaceLicense]_vars

\* what callers pass to validateLicense: nothing, null, a value that is not a
\* string, the empty string, a whitespace-only string, a well-formed key
ValidateInputs == {UNDEFINED, NULL, NOT_A_STRING, EMPTY, BLANK, KEY1}

\* whether validateLicense(key) gets as far as its request (line 57)
Requests_validate(key) == Truthy(key) /\ IsString(key) /\ trim(key) # EMPTY

\* a call of licenseManager.validateLicense(key); the answer of the license
\* service is an input only when the call makes its request
ValidateLicense ==
    \E key \in ValidateInputs :
    \E answer \in IF Requests_validate(key) THEN ValidateAnswers ELSE {NoAnswer} :
      LET r == validateLicense(key, answer)
      IN  /\ last' = [Did("validateLicense", ~r.threw) EXCEPT
                        !.input = [key |-> key], !.requested = r.requested,
                        !.answer = answer,
                        !.result = IF r.valid THEN "valid" ELSE "invalid",
                        !.ret = [valid |-> r.valid, license |-> r.license,
                                 error |-> r.error]]
          /\ UNCHANGED <<now, licenseVars, historyVars, workerVars, lastValidated>>

\* the calls that reach the license service and the history server, made
\* directly while a day passes and the license is set and cleared
NextCalls ==
    \/ ValidateLicense
    \/ GetLicenseStatus(FALSE)
    \/ (nextId <= MaxRequests /\ AddTranslation(OneInput, FALSE))
    \/ SyncToCloud(FALSE)
    \/ FetchFromCloud
    \/ SetPremiumStatus({NULL})
    \/ Tick({1})

SpecCalls == Init /\ [][NextCalls]_vars

\* the history store, with the license changing under it
NextHistory ==
    \/ AddTranslation(OneInput, FALSE)
    \/ SaveToHistory
    \/ SetPremiumStatus({NULL})

SpecHistory == Init /\ [][NextHistory]_vars

\* translations recorded one after another by addTranslation, from the empty
\* history, under either trust level
NextRecord ==
    \/ AddTranslation(OneInput, TRUE)
    \/ SetPremiumStatus({NULL})

SpecRecord == Init /\ [][NextRecord]_vars

\* translations of either kind (tone given, tone left out) recorded under
\* either trust level and read back
NextRoundTrip ==
    \/ AddTranslation(TranslationInputs, FALSE)
    \/ SetPremiumStatus({NULL})

SpecRoundTrip == Init /\ [][NextRoundTrip]_vars

\* the history store and its pending-sync queue under syncs and fetches, with
\* the license changing under them
NextSync ==
    \/ (nextId <= MaxSyncItems /\ AddTranslation(OneInput, TRUE))
    \/ SetPremiumStatus({NULL})
    \/ StoreLicenseStatus(KeylessPremium(now) \cup KeyedFreemium(now))
    \/ SyncToCloud(FALSE)
    \/ FetchFromCloud

SpecSync == Init /\ [][NextSync]_vars

\* the background worker answering translate requests while the license is set
\* and cleared, a day passes (the cache of a status set before it has ended),
\* and the syncs the worker started run
NextTranslate ==
    \/ HandleTranslate(MaxRequests)
    \/ SyncToCloud(TRUE)
    \/ SetPremiumStatus({NULL})
    \/ Tick({1})

SpecTranslate == Init /\ [][NextTranslate]_vars

-----------------------------------------------------------------------------
(* Properties of getLicenseStatus and of the stored license *)

\* the most recent operation was a getLicenseStatus call
GLS == last.op = "getLicenseStatus"

\* the status stored before the call was premium and validated less than
\* GRACE_PERIOD before now
PreInGrace ==
    /\ last.pre # NoStatus
    /\ last.pre.isPremium
    /\ last.pre.validatedAt # NoTime
    /\ now - last.pre.validatedAt < GRACE_PERIOD

\* C1: when the validation request fails at the transport level and the stored
\* status is premium, validated less than 7 days ago, getLicenseStatus returns
\* the stored status unchanged.
C1_GraceOnTransportFailure ==
    (GLS /\ last.answer.kind = "network" /\ PreInGrace) => last.ret = last.pre

\* C2: when the license service explicitly answers "invalid", getLicenseStatus
\* returns the freemium default, also when the stored status was premium and
\* validated less than 7 days ago (the specification adds that the default is
\* persisted; what is returned already decides it).
C2_InvalidRevertsToFreemium ==
    (GLS /\ last.requested /\ last.answer.kind = "ok" /\ ~last.answer.valid)
        => last.ret = _getFreemiumStatus(now)

\* C3: when the validator answers valid, getLicenseStatus persists and returns
\* the premium record built from the stored key, the response's email and
\* expiresAt, validatedAt = now and cachedUntil = validatedAt + 24 hours.
C3_ValidStoresPremium ==
    (GLS /\ last.result = "valid")
        => /\ last.ret = [ isPremium   |-> TRUE,
                           licenseKey  |-> last.preKey,
                           email       |-> last.answer.license.email,
                           expiresAt   |-> last.answer.license.expiresAt,
                           validatedAt |-> now,
                           cachedUntil |-> now + 24 ]
           /\ licenseStatus = last.ret
           /\ licenseKey = last.preKey

\* C4: with a non-empty key stored and a stored status whose cachedUntil is
\* strictly later than now, getLicenseStatus returns the stored status as it
\* is, calls no validator and writes nothing; with cachedUntil equal to now or
\* earlier the validator is called.
C4_CacheHitIffStrictlyLater ==
    (GLS /\ Truthy(last.preKey) /\ last.pre # NoStatus)
        => IF last.pre.cachedUntil > now
           THEN /\ last.ret = last.pre
                /\ ~last.validatorCalled
                /\ ~last.requested
                /\ ~last.wrote
                /\ licenseStatus = last.pre
                /\ licenseKey = last.preKey
           ELSE last.validatorCalled

C4_Witness ==
    /\ GLS
    /\ Truthy(last.preKey)
    /\ last.pre # NoStatus
    /\ last.pre.isPremium
    /\ last.pre.cachedUntil > now
    /\ last.ret = last.pre

\* C5: with an absent, null, empty or whitespace-only stored key, whatever the
\* stored status, getLicenseStatus returns isPremium=false with licenseKey,
\* email and expiresAt null and makes no request.
C5_BlankKeyIsFreemium ==
    (GLS /\ (~Truthy(last.preKey) \/ trim(last.preKey) = EMPTY))
        => /\ ~last.ret.isPremium
           /\ last.ret.licenseKey = NULL
           /\ last.ret.email = NULL
           /\ last.ret.expiresAt = NoTime
           /\ ~last.requested

\* C6: when the cache is expired and the validation call raises, getLicenseStatus
\* returns the stored status if and only if that status is premium and was
\* validated strictly less than 7 days ago; otherwise it returns the freemium
\* default.
C6_GraceIffWithinSevenDays ==
    (GLS /\ last.result = "raised")
        => IF PreInGrace
           THEN last.ret = last.pre /\ last.ret.isPremium
           ELSE last.ret = _getFreemiumStatus(now)

\* the boundary: validated exactly 7 days ago, the validator raises
C6_Witness ==
    /\ GLS
    /\ last.result = "raised"
    /\ last.pre # NoStatus
    /\ last.pre.isPremium
    /\ now - last.pre.validatedAt = 7 * 24
    /\ ~last.ret.isPremium

\* C7: when getLicenseStatus returns a premium status, the license service
\* answered "valid" for that status's key less than 7 days ago.
C7_PremiumImpliesRecentValidation ==
    (GLS /\ last.ret.isPremium)
        => /\ last.ret.licenseKey \in DOMAIN lastValidated
           /\ lastValidated[last.ret.licenseKey] # NoTime
           /\ now - lastValidated[last.ret.licenseKey] < 7 * 24

\* premium returned from the grace branch on the last day of the grace period
C7_Witness ==
    /\ GLS
    /\ last.branch = "grace"
    /\ last.ret.isPremium
    /\ now - lastValidated[last.ret.licenseKey] = 6 * 24

\* C8: the persisted status and every status getLicenseStatus returns have
\* licenseKey, email and expiresAt null whenever isPremium is false.
FullyReset(status) ==
    status.isPremium \/ ( /\ status.licenseKey = NULL
                          /\ status.email = NULL
                          /\ status.expiresAt = NoTime )

C8_FreemiumIsFullyReset ==
    /\ licenseStatus # NoStatus => FullyReset(licenseStatus)
    /\ GLS => FullyReset(last.ret)

-----------------------------------------------------------------------------
(* Properties of the history store *)

\* C9: whenever the stored license status is not premium, the stored history
\* holds at most 5 items.
C9_FreemiumHistoryAtMostFive ==
    ~IsPremiumStored(licenseStatus) => Len(translationHistory) <= 5

\* the sequence s reversed
Reverse(s) == [i \in 1..Len(s) |-> s[Len(s) + 1 - i]]

\* the items recorded so far, newest first
RecordedNewestFirst == Reverse([i \in 1..Len(recorded) |-> recorded[i].item])

\* C10: after k translations recorded by addTranslation under freemium trust,
\* from the empty history, the stored history is the min(k, 5) most recently
\* recorded items, newest first.
C10_FreemiumKeepsNewestFive ==
    (\A i \in 1..Len(recorded) : ~recorded[i].premium)
        => LET k == Len(recorded)
               n == IF k < 5 THEN k ELSE 5
           IN  /\ Len(translationHistory) = n
               /\ translationHistory = SubSeq(RecordedNewestFirst, 1, n)

\* six translations recorded under freemium trust: the oldest is gone
C10_Witness ==
    /\ Len(recorded) = 6
    /\ \A i \in 1..Len(recorded) : ~recorded[i].premium
    /\ Len(translationHistory) = 5
    /\ translationHistory[1] = recorded[6].item
    /\ translationHistory[5] = recorded[2].item

\* C11: after N translations recorded by addTranslation under premium trust,
\* from the empty history, the stored history holds exactly those N items,
\* newest first.
C11_PremiumKeepsAll ==
    (\A i \in 1..Len(recorded) : recorded[i].premium)
        => /\ Len(translationHistory) = Len(recorded)
           /\ translationHistory = RecordedNewestFirst

\* six translations recorded under premium trust, all six stored
C11_Witness ==
    /\ Len(recorded) = 6
    /\ \A i \in 1..Len(recorded) : recorded[i].premium
    /\ Len(translationHistory) = 6
    /\ translationHistory[6] = recorded[1].item

\* getHistory(): the stored history, read back
getHistory == translationHistory

\* the item of the history h with the id `id`; NoInput when there is none or
\* more than one
ItemWithId(h, id) ==
    LET found == {i \in 1..Len(h) : h[i].id = id}
    IN  IF Cardinality(found) = 1 THEN h[CHOOSE i \in found : TRUE] ELSE NoInput

-----------------------------------------------------------------------------
(* Properties of the background worker *)

\* the step is the worker handling a translate request
TranslateStep == last'.op = "handleTranslate"

\* the statuses a getLicenseStatus call can return in the current state
StatusesNow ==
    { getLicenseStatus(Memory, now, FALSE, x[1], x[2]).ret :
        x \in (IF Revalidates(Memory, now) THEN ValidateAnswers ELSE {NoAnswer})
              \X BOOLEAN }

\* the request names a provider or a tone (neutral when none is given) outside
\* the free sets
AsksPremiumFeature(request) ==
    \/ request.engine \notin FREE_PROVIDERS
    \/ (IF request.tone = UNDEFINED THEN "neutral" ELSE request.tone) \notin FREE_TONES

\* C13: for every translate request the worker obtains the license status with
\* getLicenseStatus and refreshes the feature gate with it; when the provider
\* or the tone (neutral when none is given) is not available at that trust
\* level, the request is answered with an error, no provider is called and no
\* history item is recorded.
C13_RefusedBeforeProvider ==
    [][ TranslateStep =>
          /\ gateStatus' \in StatusesNow
          /\ served'.gate = gateStatus'
          /\ (gateStatus'.isPremium # TRUE /\ AsksPremiumFeature(served'.request))
                => /\ served'.response.kind = "sent"
                   /\ ~served'.response.success
                   /\ served'.response.error # UNDEFINED
                   /\ ~served'.providerCalled
                   /\ UNCHANGED <<translationHistory, pendingSyncItems>> ]_vars

\* a request for a premium provider was refused under freemium trust, with a
\* translation already in the history
C13_Witness ==
    /\ last.op = "handleTranslate"
    /\ served.request.engine = "openai"
    /\ gateStatus.isPremium = FALSE
    /\ ~served.response.success
    /\ ~served.providerCalled
    /\ Len(translationHistory) = 1

\* C14: when addTranslation rejects after the provider returned a translation,
\* the request is answered with success and with that translation; the
\* history failure does not turn the answer into an error.
C14_HistoryFailureStillAnswers ==
    served.outcome = "rejected" =>
        /\ served.providerCalled
        /\ served.response.kind = "sent"
        /\ served.response.success
        /\ served.response.translation = Translated(served.request.text)
        /\ served.response.error = UNDEFINED

\* a premium user's translation was answered although its history write failed
C14_Witness ==
    /\ last.op = "handleTranslate"
    /\ served.outcome = "rejected"
    /\ served.gate.isPremium
    /\ served.response.success
    /\ served.response.historyItem = NULL

\* C15: handleTranslate starts a cloud sync only after the history append of
\* the translation has completed and only when the getLicenseStatus call that
\* follows it reports premium; the answer is sent while that sync has not run,
\* and no run of a started sync, failed or not, changes the answer.
C15_SyncAfterAppendNeverBlocks ==
    [][ /\ (TranslateStep /\ syncTasks' # syncTasks)
            => /\ syncTasks' = syncTasks + 1
               /\ served'.outcome = "resolved"
               /\ \E i \in 1..Len(translationHistory') :
                     translationHistory'[i] = served'.item
               /\ served'.after.isPremium = TRUE
               /\ served'.response.kind = "sent"
               /\ served'.response.success
        /\ last'.op = "syncToCloud" => UNCHANGED served ]_vars

\* a sync the worker started made its request and failed; the translation's
\* answer is the success it was
C15_Witness ==
    /\ last.op = "syncToCloud"
    /\ last.requested
    /\ ~last.ret.success
    /\ served.syncStarted
    /\ served.response.success

-----------------------------------------------------------------------------
(* Properties of syncToCloud and of the pending-sync queue *)

\* the step is a syncToCloud call
SyncStep == last'.op = "syncToCloud"

\* the ids of the items of the list l
Ids(l) == {l[i].id : i \in 1..Len(l)}

\* every item of the history h whose id is in ids is marked as synced
AllSynced(h, ids) == \A i \in 1..Len(h) : h[i].id \in ids => h[i].synced = TRUE

\* the server answered the sync request of the step with success
SyncAccepted == last'.requested /\ last'.answer.kind = "ok" /\ last'.answer.success

\* syncToCloud is called with premium trust, a stored key and a non-empty queue
SyncDue ==
    /\ SyncStep
    /\ IsPremiumStored(licenseStatus)
    /\ Truthy(licenseKey)
    /\ Len(pendingSyncItems) > 0

C17_FailedSyncChangesNothing ==
    [][ (SyncStep /\ last'.requested
           /\ last'.answer.kind \in {"http_error", "network"})
        => /\ ~last'.ret.success
           /\ last'.ret.error # UNDEFINED
           /\ UNCHANGED <<translationHistory, pendingSyncItems>>
           /\ SyncPrecheck(licenseStatus', licenseKey', pendingSyncItems').go
           /\ pendingSyncItems' = last'.sent ]_vars

\* a request for two items got a non-2xx answer; the two are still queued
C17_Witness ==
    /\ last.op = "syncToCloud"
    /\ last.requested
    /\ last.answer.kind = "http_error"
    /\ Len(last.sent) = 2
    /\ pendingSyncItems = last.sent
    /\ ~last.ret.success

\* no two entries of the pending-sync queue have the same id
NoDuplicateIds(queue) ==
    \A i, j \in 1..Len(queue) : queue[i].id = queue[j].id => i = j

\* C18: an addTranslation call that returns under premium trust has appended
\* its item to the pending-sync queue, one that returns under freemium trust
\* has left the queue unchanged, and the queue never holds two entries with
\* the same id.
C18_QueueFollowsTrust ==
    [][ /\ (last'.op = "addTranslation" /\ last'.branch = "resolved")
            => IF IsPremiumStored(licenseStatus)
               THEN pendingSyncItems' = Append(pendingSyncItems, last'.ret)
               ELSE UNCHANGED pendingSyncItems
        /\ NoDuplicateIds(pendingSyncItems') ]_vars

\* a second item was queued under premium trust
C18_Witness ==
    /\ last.op = "addTranslation"
    /\ last.branch = "resolved"
    /\ IsPremiumStored(last.pre)
    /\ Len(pendingSyncItems) = 2
    /\ pendingSyncItems[2] = last.ret

\* C19: syncToCloud makes no request when the stored status is not premium,
\* when no key is stored or when the queue is empty; in the first two cases it
\* returns success = false with an error and leaves the queue unchanged, and
\* with premium trust, a key and an empty queue it returns success with
\* syncedCount 0.
C19_SyncWithoutRequest ==
    [][ SyncStep =>
          /\ (~IsPremiumStored(licenseStatus) \/ ~Truthy(licenseKey))
                => /\ ~last'.requested
                   /\ ~last'.ret.success
                   /\ last'.ret.error # UNDEFINED
                   /\ UNCHANGED pendingSyncItems
          /\ (IsPremiumStored(licenseStatus) /\ Truthy(licenseKey)
                /\ pendingSyncItems = <<>>)
                => /\ ~last'.requested
                   /\ last'.ret.success
                   /\ last'.ret.syncedCount = 0
                   /\ UNCHANGED pendingSyncItems ]_vars

\* premium trust and a queued item, but no stored key: refused without request
C19_Witness ==
    /\ last.op = "syncToCloud"
    /\ IsPremiumStored(last.pre)
    /\ ~Truthy(last.preKey)
    /\ Len(pendingSyncItems) > 0
    /\ ~last.requested
    /\ ~last.ret.success

\* C20: while the stored license status is not premium, syncToCloud and
\* fetchFromCloud send no request, and every item of the pending-sync queue
\* was recorded under premium trust.
C20_NothingLeavesUnderFreemium ==
    [][ /\ (last'.op \in {"syncToCloud", "fetchFromCloud"}
              /\ ~IsPremiumStored(licenseStatus)) => ~last'.requested
        /\ \A i \in 1..Len(pendingSyncItems') :
              \E k \in 1..Len(recorded') :
                 /\ recorded'[k].item.id = pendingSyncItems'[i].id
                 /\ recorded'[k].premium ]_vars

\* syncToCloud refused under freemium trust while an item recorded under
\* premium trust waits in the queue and a freemium one is in the history
C20_Witness ==
    /\ last.op = "syncToCloud"
    /\ ~IsPremiumStored(last.pre)
    /\ ~last.requested
    /\ Len(pendingSyncItems) = 1
    /\ \E k \in 1..Len(recorded) : ~recorded[k].premium

-----------------------------------------------------------------------------
(* Properties of fetchFromCloud *)

\* the step is a fetchFromCloud call
FetchStep == last'.op = "fetchFromCloud"

\* the list l is ordered by timestamp, newest first
NewestFirst(l) ==
    \A i, j \in 1..Len(l) : i < j => l[i].timestamp >= l[j].timestamp

\* the positions of the list `items` whose id is not an id of the history h
NewPositions(h, items) == {k \in 1..Len(items) : items[k].id \notin Ids(h)}

\* the history `after` holds every item of `before` once and unchanged, and
\* besides them exactly the items of `items` whose id `before` did not have
MergedFrom(before, items, after) ==
    /\ \A i \in 1..Len(before) :
          /\ Cardinality({j \in 1..Len(after) : after[j].id = before[i].id}) = 1
          /\ \E j \in 1..Len(after) : after[j] = before[i]
    /\ \A k \in NewPositions(before, items) :
          \E j \in 1..Len(after) : after[j] = items[k]
    /\ Len(after) = Len(before) + Cardinality(NewPositions(before, items))

\* C21 as stated: after a successful fetchFromCloud the stored history holds
\* every item stored before, once and unchanged, plus every remote item whose
\* id was not present, and the whole is ordered by timestamp descending.
C21_FetchMergesAndOrders ==
    [][ (FetchStep /\ last'.ret.success)
        => /\ MergedFrom(translationHistory, last'.ret.items, translationHistory')
           /\ NewestFirst(translationHistory') ]_vars

\* what a successful fetchFromCloud does keep: the merge, and the order when
\* at least one remote item was new; when none was, the stored history is
\* left as it was, in the order it had
FetchMergesAndOrdersIfNew ==
    [][ (FetchStep /\ last'.ret.success)
        => /\ MergedFrom(translationHistory, last'.ret.items, translationHistory')
           /\ IF NewPositions(translationHistory, last'.ret.items) # {}
              THEN NewestFirst(translationHistory')
              ELSE UNCHANGED translationHistory ]_vars

\* the fetchFromCloud call of the step is refused before its request
FetchRefused == ~IsPremiumStored(licenseStatus) \/ ~Truthy(licenseKey)

\* C22: when fetchFromCloud is refused (freemium trust or no stored key), or
\* its request gets a non-2xx response, a success=false body or a transport
\* failure, it returns success = false and the stored history and the
\* pending-sync queue are as before the call.
C22_FailedFetchChangesNothing ==
    [][ (FetchStep /\ (\/ FetchRefused
                       \/ last'.answer.kind \in {"http_error", "network"}
                       \/ (last'.answer.kind = "ok" /\ ~last'.answer.success)))
        => /\ ~last'.ret.success
           /\ FetchRefused => ~last'.requested
           /\ UNCHANGED <<translationHistory, pendingSyncItems>> ]_vars

\* a fetch got a non-2xx answer while an item is stored and queued
C22_Witness ==
    /\ last.op = "fetchFromCloud"
    /\ last.requested
    /\ last.answer.kind = "http_error"
    /\ ~last.ret.success
    /\ Len(translationHistory) >= 1
    /\ Len(pendingSyncItems) >= 1

-----------------------------------------------------------------------------
(* Properties of the feature gate *)

\* the trust level the latest FeatureGate query worked with
Trust ==
    IF last.input.isPremium # <<>> THEN last.input.isPremium[1]
    ELSE IF gateStatus # NoStatus THEN gateStatus.isPremium = TRUE
    ELSE cachedStatus # NoStatus /\ cachedStatus.isPremium = TRUE

\* the list `ret` has one entry per entry of `catalog`, in its order, flagged
\* available under trust or when in `free`, and premium when in `premiumOnly`
Flagged(ret, catalog, free, premiumOnly) ==
    /\ Len(ret) = Len(catalog)
    /\ \A i \in 1..Len(catalog) :
          /\ ret[i].id = catalog[i]
          /\ ret[i].available = (Trust \/ catalog[i] \in free)
          /\ ret[i].isPremium = (catalog[i] \in premiumOnly)

\* the ids the list `ret` flags as available
AvailableIds(ret) == {ret[i].id : i \in {j \in 1..Len(ret) : ret[j].available}}

\* C23: for either trust level getAvailableProviders and getAvailableTones
\* return one entry per catalog entry, in catalog order, with available =
\* (isPremium or id in the free set) and the isPremium flag = (id in the
\* premium-only set); isProviderAvailable and isToneAvailable return the same
\* available value for every id; a freemium user has exactly gemini, deepseek
\* and the neutral tone available, a premium user everything.
C23_CatalogFlaggedNotFiltered ==
    /\ last.op = "getAvailableProviders" =>
          /\ Flagged(last.ret, PROVIDERS, FREE_PROVIDERS, PREMIUM_PROVIDERS)
          /\ \A i \in 1..Len(last.ret) :
                last.ret[i].available =
                   isProviderAvailable(last.ret[i].id, last.input.isPremium,
                                       gateStatus, cachedStatus)
          /\ AvailableIds(last.ret) =
                IF Trust THEN {PROVIDERS[i] : i \in 1..Len(PROVIDERS)}
                ELSE {"gemini", "deepseek"}
    /\ last.op = "getAvailableTones" =>
          /\ Flagged(last.ret, TONES, FREE_TONES, PREMIUM_TONES)
          /\ \A i \in 1..Len(last.ret) :
                last.ret[i].available =
                   isToneAvailable(last.ret[i].id, last.input.isPremium,
                                   gateStatus, cachedStatus)
          /\ AvailableIds(last.ret) =
                IF Trust THEN {TONES[i] : i \in 1..Len(TONES)} ELSE {"neutral"}
    /\ last.op = "isProviderAvailable" =>
          last.ret = (Trust \/ last.input.id \in {"gemini", "deepseek"})
    /\ last.op = "isToneAvailable" =>
          last.ret = (Trust \/ last.input.id = "neutral")

\* the provider catalog asked for without an argument while the gate holds a
\* freemium status: five entries, two of them available
C23_Witness ==
    /\ last.op = "getAvailableProviders"
    /\ last.input.isPremium = <<>>
    /\ gateStatus # NoStatus
    /\ ~gateStatus.isPremium
    /\ Len(last.ret) = 5
    /\ Cardinality(AvailableIds(last.ret)) = 2

-----------------------------------------------------------------------------
(* Properties of checkExpirationWarning *)

\* the status given to the latest checkExpirationWarning call is premium and
\* has an expiry
HasExpiry == last.pre # NoStatus /\ last.pre.isPremium /\ last.pre.expiresAt # NoTime

\* d = ceil((expiresAt - now) / 1 day) for the latest call: the number of
\* whole days that covers the time left
IsDaysLeft(d) ==
    /\ (d - 1) * DAY < last.pre.expiresAt - last.input.now
    /\ last.pre.expiresAt - last.input.now <= d * DAY

\* C24: checkExpirationWarning returns shouldShow = true iff the status is
\* premium, expiresAt is set and d = ceil((expiresAt - now) / 1 day) is in
\* 1..7; with an expiry it returns daysUntilExpiry = d, also for d <= 0 and
\* d > 7; for a freemium status or a missing expiresAt it returns shouldShow =
\* false and daysUntilExpiry = null.
C24_WarningWithinSevenDays ==
    last.op = "checkExpirationWarning" =>
        IF HasExpiry
        THEN /\ last.ret.known
             /\ IsDaysLeft(last.ret.daysUntilExpiry)
             /\ last.ret.shouldShow = (/\ 1 <= last.ret.daysUntilExpiry
                                       /\ last.ret.daysUntilExpiry <= 7)
        ELSE ~last.ret.shouldShow /\ ~last.ret.known

\* asked at the very hour of the expiry, a day late: d = 0, no warning
C24_Witness ==
    /\ last.op = "checkExpirationWarning"
    /\ HasExpiry
    /\ now > StartDay * DAY
    /\ last.pre.expiresAt = last.input.now
    /\ last.ret.daysUntilExpiry = 0
    /\ ~last.ret.shouldShow

-----------------------------------------------------------------------------
(* Properties of storeLicenseStatus and clearLicense *)

\* the stored key is the licenseKey field of the stored status
KeyMatchesStatus ==
    licenseStatus # NoStatus => licenseKey = licenseStatus.licenseKey

\* C25: after storeLicenseStatus(s) completes, the persisted status equals s
\* field by field, the persisted key equals s.licenseKey and the in-memory
\* cached status equals s; both are written in one storage write (a failed
\* write changes neither), and so the stored key always equals the licenseKey
\* field of the stored status.
C25_StoreWritesKeyAndStatus ==
    [][ /\ (last'.op = "storeLicenseStatus" /\ last'.branch = "ok")
            => /\ licenseStatus' = last'.input
               /\ \A f \in {"isPremium", "licenseKey", "email", "expiresAt",
                            "validatedAt", "cachedUntil"} :
                     licenseStatus'[f] = last'.input[f]
               /\ licenseKey' = last'.input.licenseKey
               /\ cachedStatus' = last'.input
        /\ (last'.op = "storeLicenseStatus" /\ last'.branch = "rejected")
            => UNCHANGED <<licenseKey, licenseStatus, cachedStatus>>
        /\ KeyMatchesStatus' ]_vars

\* a premium record with a key was stored where no key was stored before
C25_Witness ==
    /\ last.op = "storeLicenseStatus"
    /\ last.branch = "ok"
    /\ last.input.isPremium
    /\ last.input.licenseKey = KEY1
    /\ licenseKey = KEY1
    /\ licenseStatus = last.input
    /\ cachedStatus = last.input

\* the status c is a freemium default: no trust, no key, no email
FreemiumDefault(c) ==
    /\ c # NoStatus
    /\ c.isPremium = FALSE
    /\ c.licenseKey = NULL
    /\ c.email = NULL

\* the latest operation was a clearLicense call that completed
Cleared == last.op = "clearLicense" /\ last.branch = "ok"

\* clearing the memory m at time t and again at time u leaves what clearing
\* it once leaves: nothing stored, and a freemium default in memory
ClearTwiceAsOnce(m, t, u) ==
    LET once == clearLicense(m, t, TRUE)
        twice == clearLicense([ licenseKey |-> once.licenseKey,
                                licenseStatus |-> once.licenseStatus,
                                cachedStatus |-> once.cachedStatus ], u, TRUE)
    IN  /\ twice.licenseKey = once.licenseKey
        /\ twice.licenseStatus = once.licenseStatus
        /\ FreemiumDefault(once.cachedStatus)
        /\ FreemiumDefault(twice.cachedStatus)
        /\ twice.cachedStatus.expiresAt = once.cachedStatus.expiresAt

\* C26: after clearLicense completes, from any state, the stored key and the
\* stored status are absent and the in-memory status is the freemium default
\* (isPremium false, licenseKey null, email null); a getLicenseStatus that
\* follows returns freemium without a network call; clearing twice gives the
\* state clearing once gives.
C26_ClearResetsToFreemium ==
    [][ /\ Cleared' => /\ licenseKey' = UNDEFINED
                       /\ licenseStatus' = NoStatus
                       /\ FreemiumDefault(cachedStatus')
        /\ (Cleared /\ last'.op = "getLicenseStatus")
              => /\ ~last'.requested
                 /\ ~last'.validatorCalled
                 /\ FreemiumDefault(last'.ret)
                 /\ licenseKey' = UNDEFINED /\ licenseStatus' = NoStatus
        /\ \A u \in {now', now' + DAY} : ClearTwiceAsOnce(Memory', now', u) ]_vars

\* a stored premium license with its key was cleared
C26_Witness ==
    /\ Cleared
    /\ IsPremiumStored(last.pre)
    /\ last.preKey = KEY1
    /\ licenseKey = UNDEFINED
    /\ licenseStatus = NoStatus
    /\ FreemiumDefault(cachedStatus)

-----------------------------------------------------------------------------
(* Properties of validateLicense and of the calls to the servers *)

\* C27: validateLicense called with null, undefined, a non-string, an empty or
\* a whitespace-only string returns valid = false with the error "License key
\* is required" and no license details, and makes no network request.
C27_EmptyKeyRefusedLocally ==
    (last.op = "validateLicense"
       /\ last.input.key \in {NULL, UNDEFINED, NOT_A_STRING, EMPTY, BLANK})
    => /\ last.ret.valid = FALSE
       /\ last.ret.error = "License key is required"
       /\ last.ret.license = NoLicense
       /\ ~last.requested
       /\ last.branch = "ok"

\* a whitespace-only key was refused while a premium license is stored
C27_Witness ==
    /\ last.op = "validateLicense"
    /\ last.input.key = BLANK
    /\ ~last.ret.valid
    /\ ~last.requested
    /\ IsPremiumStored(licenseStatus)

\* the four calls that talk to the license service or the history server
ServerCalls == {"validateLicense", "getLicenseStatus", "syncToCloud", "fetchFromCloud"}

\* the answer was a transport failure, an error status or an unreadable body
FailedAnswer == last.requested /\ last.answer.kind \in {"network", "http_error", "bad_body"}

\* C28: validateLicense, getLicenseStatus, syncToCloud and fetchFromCloud never
\* raise or reject, whatever the service answers and however the transport
\* fails: each ends with its structured result, a failure being reported in it.
C28_ServerCallsNeverReject ==
    last.op \in ServerCalls =>
      /\ last.branch # "rejected"
      /\ last.op = "validateLicense" =>
           /\ last.ret.valid \in BOOLEAN
           /\ FailedAnswer => (~last.ret.valid /\ last.ret.error # NULL)
      /\ last.op = "getLicenseStatus" =>
           /\ last.ret # NoStatus
           /\ last.ret.isPremium \in BOOLEAN
      /\ last.op \in {"syncToCloud", "fetchFromCloud"} =>
           /\ last.ret.success \in BOOLEAN
           /\ FailedAnswer => (~last.ret.success /\ last.ret.error # UNDEFINED)

\* a validation ended with valid = false after the transport failed
C28_Witness ==
    /\ last.op = "validateLicense"
    /\ last.requested
    /\ last.answer.kind = "network"
    /\ last.branch = "ok"
    /\ ~last.ret.valid

-----------------------------------------------------------------------------
(* Properties of the length of the stored history *)

\* a step that stored a new translation, by addTranslation or by the content
\* script's saveToHistory
StoredTranslation ==
    /\ last'.op \in {"addTranslation", "saveToHistory"}
    /\ last'.branch # "rejected"

\* the first n items of a history kept newest first
MostRecent(history, n) ==
    SubSeq(history, 1, IF Len(history) < n THEN Len(history) ELSE n)

\* C29: the stored translation history never holds more than 50 items: every
\* new translation is stored, in front, and of the items stored before it the
\* most recent ones are kept, up to 50 items in all.
C29_HistoryKeepsLastFifty ==
    [][ StoredTranslation =>
          /\ Len(translationHistory') <= MAX_HISTORY_ITEMS
          /\ translationHistory'[1].id = nextId
          /\ Tail(translationHistory')
               = MostRecent(translationHistory, MAX_HISTORY_ITEMS - 1) ]_vars

-----------------------------------------------------------------------------
(* Properties of the grace-period branch of getLicenseStatus *)

\* the step is a getLicenseStatus that answered from its catch: the stored
\* premium status within the grace period, the freemium default outside it
AnswersFromCatch ==
    /\ last'.op = "getLicenseStatus"
    /\ last'.branch \in {"grace", "fallback"}

\* the moments the clock of the model can show from t on
From(t) == {t} \cup {u \in {(StartDay + d) * DAY : d \in 0..(MaxTicks + 1)} : u > t}

\* C30: when getLicenseStatus answers from the grace-period branch (the stored
\* premium status, or the freemium default outside the 7 days), the stored key
\* and the stored status record, cachedUntil and validatedAt included, are
\* left unchanged, so the stored cache stays expired at every later moment;
\* and a getLicenseStatus call that finds a key with an expired cache calls
\* validateLicense again, which sends its request for every key it does not
\* refuse locally.
C30_GraceLeavesStoreUnchanged ==
    [][ /\ AnswersFromCatch =>
             /\ licenseKey' = licenseKey
             /\ licenseStatus' = licenseStatus
             /\ \A u \in From(now') : Revalidates(Memory', u)
        /\ (Revalidates(Memory, now) /\ last'.op = "getLicenseStatus") =>
             /\ last'.validatorCalled
             /\ (last'.result # "raised" /\ Requests_validate(licenseKey))
                  => last'.requested ]_vars

\* the stored premium status was returned from the catch after an answer of the
\* license service could not be stored
C30_Witness ==
    /\ last.op = "getLicenseStatus"
    /\ last.branch = "grace"
    /\ last.requested
    /\ last.wrote
    /\ last.ret = licenseStatus
    /\ licenseStatus.cachedUntil <= now
    /\ Revalidates(Memory, now)

-----------------------------------------------------------------------------
(* Properties of the synced flag *)

\* the item x with its synced flag set, as _markItemsAsSynced leaves it
Marked(x) == [f \in DOMAIN x \cup {"synced"} |-> IF f = "synced" THEN TRUE ELSE x[f]]

\* C31: for an item created by addTranslation, the synced flag in the stored
\* history goes from false to true only in a syncToCloud whose request held
\* the item's id and was answered with success; synced never goes back to
\* false; and syncToCloud changes no other field of any item and never adds,
\* removes or reorders history items.
C31_SyncedOnlyAfterAcknowledgment ==
    [][ /\ \A i \in 1..Len(translationHistory), j \in 1..Len(translationHistory') :
             (/\ translationHistory[i].id = translationHistory'[j].id
              /\ "synced" \in DOMAIN translationHistory[i])
             => /\ "synced" \in DOMAIN translationHistory'[j]
                /\ translationHistory[i].synced => translationHistory'[j].synced
                /\ (~translationHistory[i].synced /\ translationHistory'[j].synced)
                     => /\ SyncStep
                        /\ SyncAccepted
                        /\ translationHistory[i].id \in Ids(last'.sent)
        /\ SyncStep =>
             /\ Len(translationHistory') = Len(translationHistory)
             /\ \A k \in 1..Len(translationHistory) :
                  \/ translationHistory'[k] = translationHistory[k]
                  \/ translationHistory'[k] = Marked(translationHistory[k]) ]_vars

-----------------------------------------------------------------------------
(* Properties of the answer to a translate request *)

\* the provider of the request handled last returned a translation
ProviderReturned ==
    served.providerCalled /\ served.outcome \in {"resolved", "rejected", "pending"}

\* C32: every translate request whose provider call returned a translation
\* gets its response, also when a storage write made while recording history
\* or while updating the pending-sync queue fails.  The handling of a request
\* is one step here and no later step answers an earlier request, so the
\* response is there once the request has been handled.
C32_TranslatedRequestAnswered ==
    ProviderReturned =>
        /\ served.response.kind = "sent"
        /\ served.response.success
        /\ served.response.translation = Translated(served.request.text)

-----------------------------------------------------------------------------
(* Properties of calls that are open at the same time *)

\* the addTranslation calls that have read the history and not yet written it
BetweenReadAndWrite == {slot \in Slots : adding[slot].pc = "set"}

\* the call in the slot has stored its list under premium trust
StoredUnderPremium(slot) ==
    /\ adding[slot].pc \in {"queue_get", "queue_set", "resolved", "pending"}
    /\ adding[slot].isPremium

\* C33: when two translate requests are handled at the same time, at most one
\* read-modify-write of the history record is in flight at any moment (the
\* get-then-set sequences of addTranslation do not overlap), so once both have
\* stored their list under premium trust the history holds both new items.
C33_HistoryWritesDoNotOverlap ==
    /\ Cardinality(BetweenReadAndWrite) <= 1
    /\ (\A slot \in Slots : StoredUnderPremium(slot))
         => \A slot \in Slots :
               \E i \in 1..Len(translationHistory) :
                  translationHistory[i].id = adding[slot].item.id

\* C34: under any interleaving of addTranslation and syncToCloud calls, an
\* item leaves the pending-sync queue only if its id was in a sync request
\* that the server answered with success: an item queued while a request is
\* under way is still queued after that sync has completed.
C34_QueuedUntilAcknowledged ==
    [][ \A id \in Ids(pendingSyncItems) \ Ids(pendingSyncItems') :
           /\ last'.op = "syncToCloud"
           /\ SyncAccepted
           /\ id \in Ids(last'.sent) ]_vars

\* the calls that store a license status on behalf of their caller
ExplicitStores == {"storeLicenseStatus", "activate", "setPremiumStatus"}

\* no license key and no status record are stored, as clearLicense leaves it
NothingStored == ~Truthy(licenseKey) /\ licenseStatus = NoStatus

\* C35: after clearLicense has completed, the stored license key and status
\* stay absent until a caller stores a new status, also when a getLicenseStatus
\* revalidation that read the old key was under way while clearLicense ran: a
\* late validation answer never re-creates the cleared license.
C35_ClearedStaysCleared ==
    [][ (NothingStored /\ last'.op \notin ExplicitStores) => NothingStored' ]_vars

-----------------------------------------------------------------------------
(* Properties of the license manager's in-memory status *)

\* the trust level hasFeature and the feature gate's fallback read from the
\* in-memory status c
CachedPremium(c) == c # NoStatus /\ c.isPremium = TRUE

\* C36: after every getLicenseStatus call, the manager's in-memory cached
\* status has the same isPremium value as the status the call returned, on
\* every branch, the one taken when no license key is stored included.
C36_CachedAgreesWithReturned ==
    last.op = "getLicenseStatus" =>
        CachedPremium(cachedStatus) = (last.ret.isPremium = TRUE)

-----------------------------------------------------------------------------
(* Properties of clearHistory *)

\* C37: clearHistory sets the stored history to empty and changes nothing
\* else (a clear whose write fails changes nothing at all): the pending-sync
\* queue, the license key and the license status are as before, so the items
\* queued before the clear are the ones the next syncToCloud sends, and a
\* successful one sends them all.
C37_ClearHistoryKeepsQueue ==
    [][ /\ last'.op = "clearHistory" =>
             /\ translationHistory' = IF last'.branch = "ok" THEN <<>>
                                      ELSE translationHistory
             /\ pendingSyncItems' = pendingSyncItems
             /\ last'.sent = pendingSyncItems
             /\ UNCHANGED <<licenseVars, nextId>>
        /\ (last.op = "clearHistory" /\ SyncStep) =>
             /\ last'.requested = SyncPrecheck(last.pre, last.preKey, last.sent).go
             /\ last'.requested => last'.sent = last.sent
             /\ (last'.requested /\ last'.ret.success) => pendingSyncItems' = <<>> ]_vars

\* the history was cleared and the sync that followed sent the item queued
\* before the clear, which the server acknowledged
C37_Witness ==
    /\ last.op = "syncToCloud"
    /\ last.branch = "synced"
    /\ Len(last.sent) >= 1
    /\ translationHistory = <<>>
    /\ pendingSyncItems = <<>>

-----------------------------------------------------------------------------
(* Properties of a revalidation that is answered as not valid *)

\* the step is a getLicenseStatus whose request the license service answered
\* with valid = false
AnsweredNotValid ==
    /\ last'.op = "getLicenseStatus"
    /\ last'.requested
    /\ last'.answer.kind = "ok"
    /\ ~last'.answer.valid

\* from the state reached, getLicenseStatus returns the freemium default
\* without calling the validator, now and at every later moment
AnswersFreemiumLocally ==
    \A u \in From(now') :
       LET r == getLicenseStatus(Memory', u, FALSE, NoAnswer, TRUE)
       IN  /\ r.branch = "nokey"
           /\ ~r.validatorCalled
           /\ ~r.requested
           /\ r.ret = _getFreemiumStatus(u)

\* a stored key that is missing stays missing until a caller stores a status
NoKeyUntilStored ==
    (~Truthy(licenseKey) /\ last'.op \notin ExplicitStores) => ~Truthy(licenseKey')

-----------------------------------------------------------------------------
(* Properties of a translate request of the content script *)

\* the stored items with the id the worker gave to the request's item, or a
\* later one: what the request handled last has added to the history
AddedByRequest ==
    {i \in 1..Len(translationHistory) :
        translationHistory[i].id >= served.item.id}

\* C39: each successful translate request started from the content script
\* adds exactly one item to the stored history; a failed or refused request
\* adds none.
C39_OneItemPerRequest ==
    [][ /\ (last'.op = "handleTranslate" /\ served'.response.kind = "sent"
              /\ ~served'.response.success)
             => translationHistory' = translationHistory
        /\ last'.op = "content.response" =>
             IF served.response.success
             THEN Cardinality(AddedByRequest') = 1
             ELSE translationHistory' = translationHistory ]_vars

----------------------------------------------------------------------------
\* Properties of hasFeature

\* the type of a feature name: the text before its first separator
TypeOfFeature(feature) == split(feature)[1]

\* C40: for every provider id and tone id and every in-memory status of the
\* license manager, hasFeature('provider:<id>') equals
\* FeatureGate.isProviderAvailable(id, isPremium) and hasFeature('tone:<id>')
\* equals FeatureGate.isToneAvailable(id, isPremium) for the isPremium of that
\* status (false when there is none); with no status or a freemium one every
\* 'history:*' feature and every feature of an unknown type is denied, and
\* with a premium status every feature is granted.
C40_HasFeatureAgreesWithGate ==
    last.op = "hasFeature" =>
      LET feature == last.input.feature
          premium == CachedPremium(cachedStatus)
      IN  /\ \A id \in FeatureIds :
               /\ feature = Feature("provider", id) =>
                    last.ret = isProviderAvailable(id, <<premium>>, gateStatus,
                                                   cachedStatus)
               /\ feature = Feature("tone", id) =>
                    last.ret = isToneAvailable(id, <<premium>>, gateStatus,
                                               cachedStatus)
          /\ (~premium /\ TypeOfFeature(feature) \notin {"provider", "tone"}) =>
               last.ret = FALSE
          /\ premium => last.ret = TRUE

\* a freemium status is in memory, the gate holds a premium one, and
\* hasFeature has granted a free provider
C40_Witness ==
    /\ last.op = "hasFeature"
    /\ cachedStatus # NoStatus /\ ~cachedStatus.isPremium
    /\ gateStatus # NoStatus /\ gateStatus.isPremium
    /\ last.input.feature = Feature("provider", "gemini")
    /\ last.ret = TRUE

====
